---- MODULE Spec2Model ----
(***************************************************************************)
(* The generation-and-resilience engine of the AI report service:          *)
(* AIClient.generate_structured_content and AIClient.generate_content      *)
(* (retry loop, provider branches, JSON validation and repair, fallback)   *)
(* and the thread-pool fan-out generate_detailed_skill_recommendations     *)
(* of src/ai-report-service/app/services/ai_client.py, together with the   *)
(* schema classes of app/models/structured_outputs.py, the system prompt    *)
(* builder and the constructor of AIClient, the report assembler            *)
(* AIGenerationService of app/services/ai_generation_service.py, and the    *)
(* two report endpoints of app/api/endpoints.py with their validation and   *)
(* transformation services.                                                 *)
(*                                                                         *)
(* Python values are tagged records: Str, Num, List, Dict (an ordered      *)
(* sequence of <<key, value>> pairs, as a JSON object is), None, and       *)
(* Instance (a validated pydantic model instance).  Text is a response     *)
(* body that is not JSON.  Strings are TLA+ strings, so lengths,           *)
(* substrings and case folding are computed on the real text.              *)
(***************************************************************************)
EXTENDS Integers, Sequences, FiniteSets, TLC

VARIABLES
    provider,        \* self.provider: "openai" or "groq"
    fn,              \* the method this invocation runs
    response_model,  \* the response_model argument (a schema class name)
    prompt,          \* the prompt argument
    pc,              \* position: "Attempting", "Backoff", "Success", "GiveUp"
    attempt,         \* the loop variable of `for attempt in range(max_retries)`
    delay,           \* the local variable delay of the except handlers
    calls,           \* history: provider calls issued by this invocation
    sleeps,          \* history: the arguments of time.sleep, in order
    repairs,         \* history: executions of the CareerExplanation repair block
    events,          \* history: what each attempt ran into, in order
    result,          \* what the invocation handed to its caller
    fan,             \* generate_detailed_skill_recommendations: position of the caller
    skills_to_process,      \* the skill names to explain, in order
    unsteady,        \* the requests whose provider calls may fail or be overtaken
    futures,         \* future_results: one retrying pipeline per submitted request
    started,         \* work items the pool's threads have taken off its queue
    skill_recommendations,  \* the results, in the order as_completed yields them
    output,          \* the list the fan-out returned
    environ,         \* os.environ at process start
    ai_client,       \* AIGenerationService.ai_client
    startup,         \* history: the ValueErrors raised by AIClient.__init__
    report,          \* what generate_detailed_report returned last
    issued,          \* history: the AIClient methods the last report called
    profile_data,    \* the argument of _get_career_counselor_system_prompt
    system_prompt,   \* the string it returned
    route,           \* the endpoint that served the last HTTP request
    java_data,       \* the body POSTed to /generate-report-java
    request,         \* the ReportGenerationRequest (POSTed, or transformed)
    steps,           \* history: the service calls the handler made, in order
    response         \* the HTTP response of the handler

fanvars == <<fan, skills_to_process, unsteady, futures, started,
             skill_recommendations, output>>

clientvars == <<provider, fn, response_model, prompt, pc, attempt, delay, calls,
                sleeps, repairs, events, result>>

svcvars == <<environ, ai_client, startup, report, issued>>

promptvars == <<profile_data, system_prompt>>

endpointvars == <<route, java_data, request, steps, response>>

vars == <<provider, fn, response_model, prompt, pc, attempt, delay, calls,
          sleeps, repairs, events, result, fan, skills_to_process, unsteady,
          futures, started, skill_recommendations, output, environ, ai_client,
          startup, report, issued, profile_data, system_prompt,
          route, java_data, request, steps, response>>


----------------------------------------------------------------------------
(* Python values                                                           *)

Str(s) == [t |-> "str", v |-> s]

Num(n) == [t |-> "int", v |-> n]

List(q) == [t |-> "list", v |-> q]

Dict(pairs) == [t |-> "dict", v |-> pairs]

None == [t |-> "None", v |-> <<>>]

Text(s) == [t |-> "text", v |-> s]

Instance(cls, pairs) == [t |-> "model", cls |-> cls, v |-> pairs]

\* key in d
HasKey(pairs, key) == \E i \in 1..Len(pairs) : pairs[i][1] = key

\* d.get(key, default)
Get(pairs, key, default) ==
    IF HasKey(pairs, key)
    THEN pairs[CHOOSE i \in 1..Len(pairs) :
                 /\ pairs[i][1] = key
                 /\ \A j \in (i+1)..Len(pairs) : pairs[j][1] # key][2]
    ELSE default

\* bool(v)
Truthy(x) ==
    CASE x.t = "None" -> FALSE
      [] x.t = "str"  -> x.v # ""
      [] x.t = "int"  -> x.v # 0
      [] x.t = "list" -> Len(x.v) > 0
      [] x.t = "dict" -> Len(x.v) > 0
      [] OTHER        -> TRUE

\* a or b
Or(a, b) == IF Truthy(a) THEN a ELSE b

\* len(v); -1 stands for the TypeError of len() on an int or None
PyLen(x) == IF x.t \in {"str", "list", "dict"} THEN Len(x.v) ELSE -1

----------------------------------------------------------------------------
(* Strings                                                                 *)

UpperChars == "ABCDEFGHIJKLMNOPQRSTUVWXYZ"

LowerChars == "abcdefghijklmnopqrstuvwxyz"

Digits == "0123456789"

CharAt(s, i) == SubSeq(s, i, i)

\* index of character c in the alphabet s, 0 when absent
IndexIn(s, c) ==
    IF \E i \in 1..Len(s) : CharAt(s, i) = c
    THEN CHOOSE i \in 1..Len(s) : CharAt(s, i) = c
    ELSE 0

\* the lower-case letter of each upper-case letter
LowerMap ==
    [c \in {CharAt(UpperChars, i) : i \in 1..Len(UpperChars)} |->
        CharAt(LowerChars, IndexIn(UpperChars, c))]

LowerChar(c) == IF c \in DOMAIN LowerMap THEN LowerMap[c] ELSE c

\* s.lower(), character by character (the string is split in halves)
RECURSIVE Lower(_)
Lower(s) ==
    IF Len(s) = 0 THEN ""
    ELSE IF Len(s) = 1 THEN LowerChar(s)
    ELSE Lower(SubSeq(s, 1, Len(s) \div 2)) \o Lower(SubSeq(s, (Len(s) \div 2) + 1, Len(s)))

\* sub in s
Contains(s, sub) ==
    \E i \in 1..(Len(s) - Len(sub) + 1) : SubSeq(s, i, i + Len(sub) - 1) = sub

IsSpace(c) == c = " " \/ c = "\n" \/ c = "\t"

IsDigit(c) == IndexIn(Digits, c) > 0

\* s.strip()
Strip(s) ==
    IF \A i \in 1..Len(s) : IsSpace(CharAt(s, i)) THEN ""
    ELSE LET a == CHOOSE i \in 1..Len(s) :
                     ~IsSpace(CharAt(s, i)) /\ \A j \in 1..(i-1) : IsSpace(CharAt(s, j))
             b == CHOOSE i \in 1..Len(s) :
                     ~IsSpace(CharAt(s, i)) /\ \A j \in (i+1)..Len(s) : IsSpace(CharAt(s, j))
         IN SubSeq(s, a, b)

\* end of the run of whitespace that starts at position i (i - 1 when there is none)
RECURSIVE SpacesEnd(_, _)
SpacesEnd(s, i) ==
    IF i <= Len(s) /\ IsSpace(CharAt(s, i)) THEN SpacesEnd(s, i + 1) ELSE i - 1

\* end of the run of digits that starts at position i (i - 1 when there is none)
RECURSIVE DigitsEnd(_, _)
DigitsEnd(s, i) ==
    IF i <= Len(s) /\ IsDigit(CharAt(s, i)) THEN DigitsEnd(s, i + 1) ELSE i - 1

\* int(s) for a string of decimal digits
RECURSIVE ParseInt(_)
ParseInt(s) ==
    IF Len(s) = 0 THEN 0
    ELSE 10 * ParseInt(SubSeq(s, 1, Len(s) - 1)) + (IndexIn(Digits, CharAt(s, Len(s))) - 1)

IsNumeric(s) == Len(s) > 0 /\ \A i \in 1..Len(s) : IsDigit(CharAt(s, i))

\* repr(v) of Python (quotes inside strings are not escaped in the texts used)
RECURSIVE Repr(_)
RECURSIVE ReprItems(_, _)
RECURSIVE ReprPairs(_, _)
ReprItems(q, i) ==
    IF i > Len(q) THEN ""
    ELSE Repr(q[i]) \o (IF i < Len(q) THEN ", " ELSE "") \o ReprItems(q, i + 1)

ReprPairs(q, i) ==
    IF i > Len(q) THEN ""
    ELSE "'" \o q[i][1] \o "': " \o Repr(q[i][2])
         \o (IF i < Len(q) THEN ", " ELSE "") \o ReprPairs(q, i + 1)

Repr(x) ==
    CASE x.t = "str"   -> "'" \o x.v \o "'"
      [] x.t = "text"  -> "'" \o x.v \o "'"
      [] x.t = "int"   -> ToString(x.v)
      [] x.t = "None"  -> "None"
      [] x.t = "list"  -> "[" \o ReprItems(x.v, 1) \o "]"
      [] x.t = "dict"  -> "{" \o ReprPairs(x.v, 1) \o "}"
      [] x.t = "model" -> x.cls \o "(" \o ReprPairs(x.v, 1) \o ")"

\* str(v): a str is itself, anything else is its repr
PyStr(x) == IF x.t = "str" THEN x ELSE Str(Repr(x))

----------------------------------------------------------------------------
(* The schema classes of app/models/structured_outputs.py                  *)

TStr == [k |-> "str", of |-> "", min |-> 0, max |-> -1]

TInt == [k |-> "int", of |-> "", min |-> 0, max |-> -1]

\* List[str]
TListStr == [k |-> "list", of |-> "str", min |-> 0, max |-> -1]

\* List[cls], with Field(min_length=, max_length=); max = -1 is no upper limit
TListOf(cls, lo, hi) == [k |-> "list", of |-> cls, min |-> lo, max |-> hi]

\* a field whose annotation is another schema class
TModel(cls) == [k |-> "model", of |-> cls, min |-> 0, max |-> -1]

CareerExplanation ==
    << <<"career_name", TStr>>, <<"explanation", TStr>>,
       <<"key_alignment_factors", TListStr>>, <<"potential_challenges", TListStr>>,
       <<"confidence_level", TStr>> >>

StudyPathRecommendation ==
    << <<"career_name", TStr>>, <<"immediate_steps", TListStr>>,
       <<"medium_term_goals", TListStr>>, <<"long_term_path", TListStr>>,
       <<"priority_subjects", TListStr>> >>

SkillRecommendation ==
    << <<"skill_name", TStr>>, <<"category", TStr>>, <<"importance_level", TStr>>,
       <<"development_method", TStr>>, <<"timeline", TStr>> >>

CareerTrajectory ==
    << <<"career_name", TStr>>, <<"immediate_focus", TStr>>,
       <<"educational_pathway", TStr>>, <<"career_progression", TStr>>,
       <<"key_milestones", TListStr>> >>

PersonalizedSummary ==
    << <<"student_name", TStr>>, <<"personality_analysis", TStr>>,
       <<"top_career_fit", TStr>>, <<"actionable_advice", TStr>>,
       <<"skills_to_develop", TListStr>>, <<"motivation_message", TStr>> >>

ConfidenceExplanation ==
    << <<"career_name", TStr>>, <<"match_score", TInt>>,
       <<"primary_factors", TListStr>>, <<"strength_areas", TListStr>>,
       <<"improvement_areas", TListStr>>, <<"overall_confidence", TStr>> >>

CareerInsights ==
    << <<"career_name", TStr>>, <<"explanation", TModel("CareerExplanation")>>,
       <<"study_path", TModel("StudyPathRecommendation")>>,
       <<"confidence", TModel("ConfidenceExplanation")>> >>

StructuredReportOutput ==
    << <<"personalized_summary", TModel("PersonalizedSummary")>>,
       <<"career_insights", TListOf("CareerInsights", 0, -1)>>,
       <<"skill_recommendations", TListOf("SkillRecommendation", 0, -1)>>,
       <<"career_trajectory", TModel("CareerTrajectory")>>,
       <<"overall_assessment", TStr>> >>

SimpleListOutput == << <<"items", TListStr>> >>

KeyValueOutput == << <<"key", TStr>>, <<"value", TStr>> >>

MultiKeyValueOutput == << <<"pairs", TListOf("KeyValueOutput", 0, -1)>> >>

ActionPlanItem == << <<"title", TStr>>, <<"description", TStr>>, <<"timeline", TStr>> >>

\* an action plan without the bounds on the number of items
ActionPlanAnyLength == << <<"items", TListOf("ActionPlanItem", 0, 0 - 1)>> >>

ActionPlan == << <<"items", TListOf("ActionPlanItem", 5, 5)>> >>

\* imported by ai_client.py from structured_outputs and used as response models;
\* the fields are those the prompt's JSON schema and the callers' .skills name
CareerSkills == << <<"career_name", TStr>>, <<"skills", TListStr>> >>

\* as CareerSkills; the callers read .courses
CareerCourses == << <<"career_name", TStr>>, <<"courses", TListStr>> >>

\* the declared fields of a schema class, in declaration order
Fields(cls) ==
    CASE cls = "CareerExplanation"       -> CareerExplanation
      [] cls = "StudyPathRecommendation" -> StudyPathRecommendation
      [] cls = "SkillRecommendation"     -> SkillRecommendation
      [] cls = "CareerTrajectory"        -> CareerTrajectory
      [] cls = "PersonalizedSummary"     -> PersonalizedSummary
      [] cls = "ConfidenceExplanation"   -> ConfidenceExplanation
      [] cls = "CareerInsights"          -> CareerInsights
      [] cls = "StructuredReportOutput"  -> StructuredReportOutput
      [] cls = "SimpleListOutput"        -> SimpleListOutput
      [] cls = "KeyValueOutput"          -> KeyValueOutput
      [] cls = "MultiKeyValueOutput"     -> MultiKeyValueOutput
      [] cls = "ActionPlanItem"          -> ActionPlanItem
      [] cls = "ActionPlan"              -> ActionPlan
      [] cls = "CareerSkills"            -> CareerSkills
      [] cls = "CareerCourses"           -> CareerCourses

\* the response models of the registry (ActionPlanItem is only ever a list element)
ResponseModels ==
    << "CareerExplanation", "StudyPathRecommendation", "SkillRecommendation",
       "CareerTrajectory", "PersonalizedSummary", "ConfidenceExplanation",
       "CareerInsights", "StructuredReportOutput", "SimpleListOutput",
       "KeyValueOutput", "MultiKeyValueOutput", "ActionPlan", "CareerSkills",
       "CareerCourses" >>

----------------------------------------------------------------------------
(* pydantic validation.  A validation yields [ok, v, msg]: the validated   *)
(* value, or the text of the ValidationError.                              *)

Valid(x) == [ok |-> TRUE, v |-> x, msg |-> ""]

Invalid(m) == [ok |-> FALSE, v |-> None, msg |-> m]

\* pydantic shortens the repr of an offending input to 50 characters
Truncated(s) ==
    IF Len(s) > 50 THEN SubSeq(s, 1, 25) \o "..." \o SubSeq(s, Len(s) - 23, Len(s)) ELSE s

\* the line pydantic prints for one error: location, message, the offending input
ErrorLine(loc, what, input) ==
    loc \o ": " \o what \o " input_value=" \o Truncated(Repr(input)) \o "; "

\* the type of the elements of a list field
ElemType(ty) == IF ty.of = "str" THEN TStr ELSE TModel(ty.of)

\* x is accepted for the field type ty (lax mode: a numeric string is accepted
\* for an int, nothing but a string for a str); for a schema class every declared
\* field must be present and accepted, and keys that are not fields are ignored
RECURSIVE Conforms(_, _)
Conforms(ty, x) ==
    CASE ty.k = "str"   -> x.t = "str"
      [] ty.k = "int"   -> x.t = "int" \/ (x.t = "str" /\ IsNumeric(x.v))
      [] ty.k = "list"  ->
           /\ x.t = "list"
           /\ Len(x.v) >= ty.min
           /\ (ty.max >= 0 => Len(x.v) <= ty.max)
           /\ \A i \in 1..Len(x.v) : Conforms(ElemType(ty), x.v[i])
      [] ty.k = "model" ->
           \/ (x.t = "model" /\ x.cls = ty.of)
           \/ /\ x.t = "dict"
              /\ \A i \in 1..Len(Fields(ty.of)) :
                    /\ HasKey(x.v, Fields(ty.of)[i][1])
                    /\ Conforms(Fields(ty.of)[i][2], Get(x.v, Fields(ty.of)[i][1], None))

\* the validated value of an accepted x: instances for objects, declared fields
\* only and in declaration order, numeric strings converted
RECURSIVE Coerce(_, _)
Coerce(ty, x) ==
    CASE ty.k = "str"   -> x
      [] ty.k = "int"   -> IF x.t = "int" THEN x ELSE Num(ParseInt(x.v))
      [] ty.k = "list"  -> List([i \in 1..Len(x.v) |-> Coerce(ElemType(ty), x.v[i])])
      [] ty.k = "model" ->
           IF x.t = "model" THEN x
           ELSE Instance(ty.of,
                  [i \in 1..Len(Fields(ty.of)) |->
                     <<Fields(ty.of)[i][1],
                       Coerce(Fields(ty.of)[i][2], Get(x.v, Fields(ty.of)[i][1], None))>>])

\* the error lines of a rejected x, one per error
RECURSIVE ErrorText(_, _, _)
RECURSIVE ErrorsOfItems(_, _, _, _)
RECURSIVE ErrorsOfFields(_, _, _)
ErrorsOfItems(ty, q, loc, i) ==
    IF i > Len(q) THEN ""
    ELSE (IF Conforms(ty, q[i]) THEN "" ELSE ErrorText(ty, q[i], loc))
         \o ErrorsOfItems(ty, q, loc, i + 1)

ErrorsOfFields(cls, x, i) ==
    IF i > Len(Fields(cls)) THEN ""
    ELSE LET f == Fields(cls)[i]
         IN (IF ~HasKey(x.v, f[1]) THEN ErrorLine(f[1], "Field required", x)
             ELSE IF Conforms(f[2], Get(x.v, f[1], None)) THEN ""
             ELSE ErrorText(f[2], Get(x.v, f[1], None), f[1]))
            \o ErrorsOfFields(cls, x, i + 1)

ErrorText(ty, x, loc) ==
    CASE ty.k = "str" -> ErrorLine(loc, "Input should be a valid string", x)
      [] ty.k = "int" -> ErrorLine(loc, "Input should be a valid integer", x)
      [] ty.k = "list" ->
           IF x.t # "list" THEN ErrorLine(loc, "Input should be a valid list", x)
           ELSE IF Len(x.v) < ty.min
           THEN ErrorLine(loc, "List should have at least " \o ToString(ty.min) \o " items", x)
           ELSE IF ty.max >= 0 /\ Len(x.v) > ty.max
           THEN ErrorLine(loc, "List should have at most " \o ToString(ty.max) \o " items", x)
           ELSE ErrorsOfItems(ElemType(ty), x.v, loc, 1)
      [] ty.k = "model" ->
           IF x.t # "dict" THEN ErrorLine(loc, "Input should be an object", x)
           ELSE ErrorsOfFields(ty.of, x, 1)

\* validation of x against the schema class cls
ValidateModel(cls, x) ==
    IF Conforms(TModel(cls), x) THEN Valid(Coerce(TModel(cls), x))
    ELSE Invalid("validation error for " \o cls \o ": " \o ErrorText(TModel(cls), x, cls))

\* cls.model_construct(**kwargs): an instance built without validation
ConstructUnvalidated(cls, kwargs) == Valid(Instance(cls, kwargs))

\* cls(**kwargs): the constructor validates its keyword arguments
Construct(cls, kwargs) == ValidateModel(cls, Dict(kwargs))

\* cls.model_validate_json(content): content is a Text that is not JSON, or a
\* JSON value
ModelValidateJson(cls, content) ==
    IF content.t = "text"
    THEN Invalid("validation error for " \o cls \o ": "
                 \o ErrorLine("Invalid JSON", "expected value at line 1 column 1", content))
    ELSE ValidateModel(cls, content)

\* isinstance(x, cls) with every field of the declared type
RECURSIVE IsInstance(_, _)
IsInstance(x, cls) ==
    /\ x.t = "model"
    /\ x.cls = cls
    /\ Len(x.v) = Len(Fields(cls))
    /\ \A i \in 1..Len(x.v) :
          LET ty == Fields(cls)[i][2]
              y  == x.v[i][2]
          IN /\ x.v[i][1] = Fields(cls)[i][1]
             /\ CASE ty.k = "str"   -> y.t = "str"
                  [] ty.k = "int"   -> y.t = "int"
                  [] ty.k = "model" -> IsInstance(y, ty.of)
                  [] ty.k = "list"  ->
                       /\ y.t = "list"
                       /\ Len(y.v) >= ty.min
                       /\ (ty.max >= 0 => Len(y.v) <= ty.max)
                       /\ \A j \in 1..Len(y.v) :
                             IF ty.of = "str" THEN y.v[j].t = "str"
                             ELSE IsInstance(y.v[j], ty.of)

----------------------------------------------------------------------------
(* AIClient._get_fallback_content and _get_fallback_structured_content     *)

\* the keyword chain asked of the prompt as written, not of prompt.lower()
FallbackContentCaseSensitive(p) ==
    IF Contains(p, "career")
    THEN "This career aligns well with your profile based on your interests and academic performance."
    ELSE IF Contains(p, "study")
    THEN "Focus on building relevant skills and gaining practical experience in your area of interest."
    ELSE IF Contains(p, "confidence")
    THEN "This recommendation is based on strong alignment with your personality and academic profile."
    ELSE "Based on your profile, this is a suitable career path for your interests and abilities."

\* _get_fallback_content(prompt)
FallbackContent(p) ==
    IF Contains(Lower(p), "career")
    THEN "This career aligns well with your profile based on your interests and academic performance."
    ELSE IF Contains(Lower(p), "study")
    THEN "Focus on building relevant skills and gaining practical experience in your area of interest."
    ELSE IF Contains(Lower(p), "confidence")
    THEN "This recommendation is based on strong alignment with your personality and academic profile."
    ELSE "Based on your profile, this is a suitable career path for your interests and abilities."

StrList(q) == List([i \in 1..Len(q) |-> Str(q[i])])

\* re.search(r'grade\s+(\d+)', s): the positions where the pattern matches
GradeMatchAt(s, i) ==
    /\ i + 4 <= Len(s)
    /\ SubSeq(s, i, i + 4) = "grade"
    /\ SpacesEnd(s, i + 5) >= i + 5
    /\ DigitsEnd(s, SpacesEnd(s, i + 5) + 1) >= SpacesEnd(s, i + 5) + 1

\* the grade is never read out of the prompt
FallbackGradeDefault(p) == IF Len(p) >= 0 THEN 11 ELSE 0

\* the grade the ActionPlan fallback reads out of the prompt (11 when none is found)
FallbackGrade(p) ==
    LET s == Lower(p)
    IN IF Contains(s, "grade") /\ \E i \in 1..Len(s) : GradeMatchAt(s, i)
       THEN LET i == CHOOSE k \in 1..Len(s) :
                        GradeMatchAt(s, k) /\ \A j \in 1..(k-1) : ~GradeMatchAt(s, j)
                d == SpacesEnd(s, i + 5) + 1
            IN ParseInt(SubSeq(s, d, DigitsEnd(s, d)))
       ELSE 11

ActionItem(title, description, timeline) ==
    Instance("ActionPlanItem",
             << <<"title", Str(title)>>, <<"description", Str(description)>>,
                <<"timeline", Str(timeline)>> >>)

ActionPlanBelow8 ==
    << ActionItem("Build Foundational Skills", "Focus on developing core skills in subjects you enjoy. Practice regularly through fun activities, games, and hands-on projects.", "Ongoing"),
       ActionItem("Explore Different Areas", "Try different activities and hobbies to discover what interests you most. Join clubs, participate in school activities, and explore new subjects.", "This month"),
       ActionItem("Practice Through Projects", "Engage in hands-on projects that interest you. Build things, create art, solve puzzles, or work on collaborative projects with friends.", "Next 2 weeks"),
       ActionItem("Develop Communication Skills", "Practice expressing your ideas through writing, speaking, and presentations. Join debate clubs, writing groups, or drama activities.", "This month"),
       ActionItem("Keep Learning and Growing", "Continue building your skills through practice and exploration. Every small step counts toward your growth and discovery.", "Ongoing") >>

ActionPlanFrom8 ==
    << ActionItem("Explore Career Details", "Research your top 3-5 career recommendations in depth. Understand daily responsibilities, growth opportunities, and industry trends.", "This week"),
       ActionItem("Educational Pathway Planning", "Research educational requirements, courses, and institutions that align with your career choices. Plan your subject selection for upcoming grades.", "Next 2 weeks"),
       ActionItem("Professional Networking", "Connect with professionals in your areas of interest through LinkedIn, career events, or through family connections. Conduct informational interviews.", "This month"),
       ActionItem("Gain Experience", "Look for internships, job shadowing opportunities, or volunteer work in your fields of interest. Consider joining relevant clubs or competitions.", "Next 3 months"),
       ActionItem("Skill Development", "Identify and develop key skills relevant to your top career choices. Take online courses, attend workshops, or start personal projects.", "Ongoing") >>

\* the keyword arguments of the hand-written default of the class; the classes
\* without one are built as cls()
FallbackKwargs(cls, p) ==
    CASE cls = "CareerExplanation" ->
           << <<"career_name", Str("Career")>>,
              <<"explanation", Str("This career aligns well with your profile based on your interests and academic performance.")>>,
              <<"key_alignment_factors", StrList(<<"Academic performance", "Interest alignment", "Skill compatibility">>)>>,
              <<"potential_challenges", StrList(<<"Skill development", "Experience building">>)>>,
              <<"confidence_level", Str("Medium")>> >>
      [] cls = "StudyPathRecommendation" ->
           << <<"career_name", Str("Career")>>,
              <<"immediate_steps", StrList(<<"Focus on core subjects", "Build foundational skills">>)>>,
              <<"medium_term_goals", StrList(<<"Gain practical experience", "Develop specialized knowledge">>)>>,
              <<"long_term_path", StrList(<<"Pursue higher education", "Build professional network">>)>>,
              <<"priority_subjects", StrList(<<"Mathematics", "Science", "Language Arts">>)>> >>
      [] cls = "SkillRecommendation" ->
           << <<"skill_name", Str("Problem Solving")>>,
              <<"category", Str("Soft Skills")>>,
              <<"importance_level", Str("High")>>,
              <<"development_method", Str("Practice with real-world problems")>>,
              <<"timeline", Str("6-12 months")>> >>
      [] cls = "PersonalizedSummary" ->
           << <<"student_name", Str("Student")>>,
              <<"personality_analysis", Str("You show strong analytical and creative abilities.")>>,
              <<"top_career_fit", Str("Your profile aligns well with analytical and creative fields.")>>,
              <<"actionable_advice", Str("Focus on building relevant skills and gaining practical experience.")>>,
              <<"skills_to_develop", StrList(<<"Critical thinking", "Communication", "Technical skills">>)>>,
              <<"motivation_message", Str("You have great potential to succeed in your chosen field.")>> >>
      [] cls = "ConfidenceExplanation" ->
           << <<"career_name", Str("Career")>>,
              <<"match_score", Num(75)>>,
              <<"primary_factors", StrList(<<"Academic alignment", "Interest match", "Skill compatibility">>)>>,
              <<"strength_areas", StrList(<<"Analytical thinking", "Problem solving">>)>>,
              <<"improvement_areas", StrList(<<"Practical experience", "Specialized knowledge">>)>>,
              <<"overall_confidence", Str("Good match with room for growth")>> >>
      [] cls = "SimpleListOutput" ->
           << <<"items", StrList(<<"Focus on core subjects", "Build practical skills", "Gain experience">>)>> >>
      [] cls = "ActionPlan" ->
           IF FallbackGrade(p) < 8
           THEN << <<"items", List(ActionPlanBelow8)>> >>
           ELSE << <<"items", List(ActionPlanFrom8)>> >>
      [] OTHER -> <<>>

\* try: <first> except Exception: <second>
OrElse(first, second) == IF first.ok THEN first ELSE second

\* _get_fallback_structured_content(response_model, prompt): an exception of the
\* try block is answered with response_model(), whose own exception propagates
GetFallbackStructuredContent(cls, p) ==
    OrElse(Construct(cls, FallbackKwargs(cls, p)), Construct(cls, <<>>))

----------------------------------------------------------------------------
(* The provider: what one call of self.client.chat.completions can do.     *)
(* The outcomes are kept in sequences and drawn by index.                  *)

RECURSIVE SampleDoc(_)
SampleOf(ty, name) ==
    CASE ty.k = "str"   -> Str("sample " \o name)
      [] ty.k = "int"   -> Num(82)
      [] ty.k = "model" -> SampleDoc(ty.of)
      [] ty.k = "list"  ->
           List([i \in 1..(IF ty.min > 2 THEN ty.min ELSE 2) |->
                   IF ty.of = "str" THEN Str(name \o " " \o ToString(i))
                   ELSE SampleDoc(ty.of)])

\* a JSON object that carries every field of cls with a value of the right type
SampleDoc(cls) ==
    Dict([i \in 1..Len(Fields(cls)) |->
            <<Fields(cls)[i][1], SampleOf(Fields(cls)[i][2], Fields(cls)[i][1])>>])

\* 51 and 50 characters
Long51 == "Your analytical scores and love of maths fit this."  \o "!"

Long50 == "Your analytical scores and love of maths fit this."

Factors == StrList(<<"Mathematics 92%", "Investigative 78%", "Coding club">>)

\* response bodies every response model can meet
CommonDocs(cls) ==
    << SampleDoc(cls),
       Dict(<< <<"note", Str("extra key")>> >> \o SampleDoc(cls).v),
       Dict(<<>>),
       Text("Here is the answer you asked for"),
       Dict(<< <<"score", Num(429)>> >>),
       List(<<Str("a"), Str("b")>>) >>

\* response bodies for the CareerExplanation prompt
ExplanationDocs ==
    << Dict(<< <<"career_name", Str("Data Scientist")>>,
               <<"career_match_explanation", Str(Long51)>>,
               <<"key_alignment_factors", Factors>>,
               <<"potential_challenges", StrList(<<"Statistics depth">>)>>,
               <<"confidence_level", Str("High")>> >>),
       Dict(<< <<"explanation", Str(Long51)>> >>),
       Dict(<< <<"explanation", Str(Long50)>> >>),
       Dict(<< <<"career_name", Num(429)>>, <<"explanation", Str(Long51)>> >>),
       Dict(<< <<"detailed_explanation", Str("")>>, <<"analysis", Str(Long51)>> >>),
       Dict(<< <<"explanation", Factors>> >>),
       Dict(<< <<"explanation", Num(7)>> >>),
       Dict(<< <<"summary", Str("A short summary that still makes a long object")>> >>),
       Dict(<< <<"explanation", Str(Long51)>>, <<"key_alignment_factors", None>> >>),
       Dict(<< <<"career_name", Str("Pilot")>>, <<"explanation", None>>,
               <<"note", Str("the rate limit of learning is curiosity")>> >>),
       Dict(<< <<"career_name", Str("Data Scientist")>>,
               <<"career_match_explanation", Str(Long50)>>,
               <<"key_alignment_factors", Factors>>,
               <<"potential_challenges", StrList(<<"Statistics depth">>)>>,
               <<"confidence_level", Str("High")>> >>),
       Dict(<< <<"analysis", Str(Long51 \o " (analysis)")>>,
               <<"detailed_explanation", Str(Long51 \o " (detailed)")>>,
               <<"career_match_explanation", Str(Long51 \o " (match)")>>,
               <<"explanation", Str(Long51 \o " (explanation)")>> >>),
       Dict(<< <<"analysis", Str(Long51 \o " (analysis)")>>,
               <<"detailed_explanation", Str(Long51 \o " (detailed)")>>,
               <<"career_match_explanation", Str(Long51 \o " (match)")>> >>),
       Dict(<< <<"analysis", Str(Long51 \o " (analysis)")>>,
               <<"detailed_explanation", Str(Long51 \o " (detailed)")>> >>) >>

\* response bodies for the ActionPlan prompt: 4 items and 6 items
ActionPlanDocs ==
    << Dict(<< <<"items", List([i \in 1..4 |-> SampleDoc("ActionPlanItem")])>> >>),
       Dict(<< <<"items", List([i \in 1..6 |-> SampleDoc("ActionPlanItem")])>> >>) >>

\* response bodies for the CareerSkills and CareerCourses prompts: more entries
\* than the caller keeps, and none
ListDocs(key) ==
    << Dict(<< <<"career_name", Str("Data Scientist")>>,
               <<key, List([i \in 1..7 |-> Str(key \o " " \o ToString(i))])>> >>),
       Dict(<< <<"career_name", Str("Data Scientist")>>, <<key, List(<<>>)>> >>) >>

GroqDocs(cls) ==
    IF cls = "CareerExplanation" THEN CommonDocs(cls) \o ExplanationDocs
    ELSE IF cls = "ActionPlan" THEN CommonDocs(cls) \o ActionPlanDocs
    ELSE IF cls = "CareerSkills" THEN CommonDocs(cls) \o ListDocs("skills")
    ELSE IF cls = "CareerCourses" THEN CommonDocs(cls) \o ListDocs("courses")
    ELSE CommonDocs(cls)

FinishReasons == <<"stop", "length", "content_filter">>

Refusals == <<None, Str("I'm sorry, I can't assist with that request.")>>

\* what the free-text call can carry as message.content
TextContents ==
    << Str("  Coding helps you build things.\n"), Str(""), Str("   "), None >>

Raised(cls, msg) ==
    [k |-> "raise", cls |-> cls, msg |-> msg, refusal |-> None, finish_reason |-> "",
     parsed |-> None, content |-> None]

Completion(refusal, finish, parsed, content) ==
    [k |-> "completion", cls |-> "", msg |-> "", refusal |-> refusal,
     finish_reason |-> finish, parsed |-> parsed, content |-> content]

\* the exceptions a provider call raises; only the openai client raises the
\* RateLimitError class that ai_client.py imports
ProviderErrors(prov) ==
    << IF prov = "openai"
       THEN Raised("openai.RateLimitError", "Error code: 429 - Rate limit reached for requests")
       ELSE Raised("groq.RateLimitError", "Error code: 429 - Rate limit reached for model"),
       Raised("APIStatusError", "Error code: 503 - Too Many Requests, engine overloaded"),
       Raised("AuthenticationError", "Error code: 401 - Incorrect API key provided"),
       Raised("APIConnectionError", "Connection error.") >>

\* chat.completions.parse(response_format=response_model): message.parsed, when
\* present, is an instance of response_model
ParseOutcomes(cls) ==
    LET parsed   == << None, ModelValidateJson(cls, SampleDoc(cls)).v >>
        contents == << None, SampleDoc(cls), Dict(<<>>) >>
    IN [n \in 1..(Len(Refusals) * Len(FinishReasons) * Len(parsed) * Len(contents)) |->
          Completion(Refusals[((n - 1) % 2) + 1],
                     FinishReasons[(((n - 1) \div 2) % 3) + 1],
                     parsed[(((n - 1) \div 6) % 2) + 1],
                     contents[((n - 1) \div 12) + 1])]

\* chat.completions.create(response_format={"type": "json_object"})
JsonOutcomes(cls) ==
    LET docs == <<None>> \o GroqDocs(cls)
    IN [n \in 1..(2 * Len(docs)) |->
          Completion(None, FinishReasons[((n - 1) % 2) + 1], None,
                     docs[((n - 1) \div 2) + 1])]

\* chat.completions.create() of generate_content
TextOutcomes ==
    [n \in 1..(2 * Len(TextContents)) |->
       Completion(None, FinishReasons[((n - 1) % 2) + 1], None,
                  TextContents[((n - 1) \div 2) + 1])]

StructuredOutcomes(prov, cls) ==
    ProviderErrors(prov) \o (IF prov = "openai" THEN ParseOutcomes(cls) ELSE JsonOutcomes(cls))

ContentOutcomes(prov) == ProviderErrors(prov) \o TextOutcomes

\* the outcomes of a structured call, tabulated per provider and response model
OutcomeTable ==
    [prov \in {"openai", "groq"} |->
       [cls \in {ResponseModels[i] : i \in 1..Len(ResponseModels)} |->
          StructuredOutcomes(prov, cls)]]

----------------------------------------------------------------------------
(* AIClient.generate_structured_content and AIClient.generate_content      *)

\* a loop of one iteration more: range(max_retries + 1)
OneMoreRetry == 3 + 1

max_retries == 3

base_delay == 5

\* how a try block ends: a return (of v, produced on the path `origin`) or an
\* exception (of class cls with text msg); ev names what the attempt ran into and
\* rep counts the runs of the repair block
Return(x, origin, ev, rep) ==
    [out |-> "return", v |-> x, origin |-> origin, cls |-> "", msg |-> "",
     ev |-> ev, rep |-> rep]

Raise(cls, msg, ev, rep) ==
    [out |-> "raise", v |-> None, origin |-> "", cls |-> cls, msg |-> msg,
     ev |-> ev, rep |-> rep]

\* a `return <value>` written inside the try block, where computing the value
\* may raise: f is the outcome [ok, v, msg] of computing it (a JSON text that
\* does not yield a value is recorded as the event "validation_failure"); a
\* non-empty msg is the text of the exception raised instead of f's own
ReturnOrRaise(f, origin, ev, rep, msg) ==
    IF f.ok THEN Return(f.v, origin, ev, rep)
    ELSE Raise("ValidationError", IF msg = "" THEN f.msg ELSE msg,
               IF ev = "validated" THEN "validation_failure" ELSE ev, rep)

\* message.content is a non-empty string
ContentPresent(c) == c.t # "None" /\ (c.t = "text" => c.v # "")

\* a branch that checks message.refusal only
TerminalResponseRefusalOnly(o) == IF Truthy(o.refusal) THEN "refusal" ELSE ""

\* the checks that end the openai branch with the fallback, in their order:
\* message.refusal, finish_reason "length", finish_reason "content_filter"
TerminalResponse(o) ==
    IF Truthy(o.refusal) THEN "refusal"
    ELSE IF o.finish_reason = "length" THEN "length"
    ELSE IF o.finish_reason = "content_filter" THEN "content_filter"
    ELSE ""

\* the openai branch of the try block, after completions.parse() returned o
OpenAIBranch(cls, p, o) ==
    IF TerminalResponse(o) # ""
    THEN ReturnOrRaise(GetFallbackStructuredContent(cls, p), "fallback",
                       TerminalResponse(o), 0, "")
    ELSE IF Truthy(o.parsed) THEN Return(o.parsed, "provider", "parsed", 0)
    ELSE IF ContentPresent(o.content)
    THEN ReturnOrRaise(ModelValidateJson(cls, o.content), "provider",
                       "validated", 0, "")
    ELSE Raise("ValueError", "No parsed content available from OpenAI response",
               "no_content", 0)

\* an explanation looked up under the canonical key only
ExplanationTextCanonicalOnly(json_data, content) ==
    Or(Get(json_data, "explanation", None), PyStr(content))

\* the keys probed from the last to the first
ExplanationTextLastKeyFirst(json_data, content) ==
    Or(Get(json_data, "analysis", None),
    Or(Get(json_data, "detailed_explanation", None),
    Or(Get(json_data, "career_match_explanation", None),
    Or(Get(json_data, "explanation", None),
       PyStr(content)))))

\* explanation_text: the first truthy value among the keys probed, else
\* str(json_data)
ExplanationText(json_data, content) ==
    Or(Get(json_data, "explanation", None),
    Or(Get(json_data, "career_match_explanation", None),
    Or(Get(json_data, "detailed_explanation", None),
    Or(Get(json_data, "analysis", None),
       PyStr(content)))))

\* the block that extracts the explanation of a CareerExplanation out of
\* json.loads(content); any exception inside it is swallowed (not ok)
RepairExplanation(cls, content) ==
    IF content.t # "dict" THEN Invalid("json.loads / .get failed")
    ELSE LET json_data == content.v
             explanation_text == ExplanationText(json_data, content)
         IN IF Truthy(explanation_text) /\ PyLen(explanation_text) > 50
            THEN Construct(cls,
                   << <<"career_name", Get(json_data, "career_name", Str("Career"))>>,
                      <<"explanation", explanation_text>>,
                      <<"key_alignment_factors",
                        Get(json_data, "key_alignment_factors",
                            StrList(<<"Strong profile match", "Academic alignment",
                                      "Interest compatibility">>))>>,
                      <<"potential_challenges",
                        Get(json_data, "potential_challenges",
                            StrList(<<"Skill development", "Experience building">>))>>,
                      <<"confidence_level",
                        Get(json_data, "confidence_level", Str("Medium"))>> >>)
            ELSE Invalid("no explanation longer than 50 characters")

\* the except block of model_validate_json: parse_error carries the text msg;
\* a CareerExplanation is repaired when the block succeeds, and parse_error is
\* raised again in every other case
OnParseError(cls, content, msg) ==
    IF cls = "CareerExplanation"
    THEN ReturnOrRaise(RepairExplanation(cls, content), "repaired",
                       "validated", 1, msg)
    ELSE Raise("ValidationError", msg, "validation_failure", 0)

\* the except block run on every outcome of model_validate_json
ParseThenRepair(cls, content, r) == OnParseError(cls, content, r.msg)

\* the try/except around model_validate_json, r being its outcome
ParseAndValidate(cls, content, r) ==
    IF r.ok THEN Return(r.v, "provider", "validated", 0)
    ELSE OnParseError(cls, content, r.msg)

\* the groq branch of the try block, after completions.create() returned o
GroqBranch(cls, p, o) ==
    IF o.content.t = "None"
    THEN Raise("AttributeError", "'NoneType' object has no attribute 'strip'",
               "no_content", 0)
    ELSE ParseAndValidate(cls, o.content, ModelValidateJson(cls, o.content))

\* one pass through the try block of generate_structured_content
StructuredTry(prov, cls, p, o) ==
    IF o.k = "raise" THEN Raise(o.cls, o.msg, "provider_error", 0)
    ELSE IF prov = "openai" THEN OpenAIBranch(cls, p, o)
    ELSE GroqBranch(cls, p, o)

\* one pass through the try block of generate_content
ContentTry(o) ==
    IF o.k = "raise" THEN Raise(o.cls, o.msg, "provider_error", 0)
    ELSE IF o.content.t = "None"
    THEN Raise("AttributeError", "'NoneType' object has no attribute 'strip'",
               "no_content", 0)
    ELSE Return(Str(Strip(o.content.v)), "provider", "content", 0)

\* a handler that takes every exception for a rate limit
AnyMessage(msg) == Len(msg) >= 0

\* "429" in error_str or "rate limit" in error_str or "too many requests" in error_str
IsRateLimitMessage(msg) ==
    LET error_str == Lower(msg)
    IN \/ Contains(error_str, "429")
       \/ Contains(error_str, "rate limit")
       \/ Contains(error_str, "too many requests")

\* the exception is handled as a rate limit: `except RateLimitError`, or
\* `except Exception` with a rate-limit text
IsRateLimit(r) == r.cls = "openai.RateLimitError" \/ IsRateLimitMessage(r.msg)


\* a guard that lets the last attempt sleep as well
MayRetryOffByOne(att) == att < max_retries

\* if attempt < max_retries - 1
MayRetry(att) == att < max_retries - 1

\* delay = base_delay * (2 ** attempt)
BackoffDelay(att) == base_delay * (2 ^ att)

NoResult == [kind |-> "none", origin |-> "", v |-> None, msg |-> ""]

Returned(x, origin) == [kind |-> "returned", origin |-> origin, v |-> x, msg |-> ""]

Propagated(msg) == [kind |-> "raised", origin |-> "", v |-> None, msg |-> msg]

\* a `return <value>` outside the try block (in a handler, or after the loop):
\* an exception of computing the value reaches the caller
ReturnOrPropagate(f) == IF f.ok THEN Returned(f.v, "fallback") ELSE Propagated(f.msg)

\* `return self._get_fallback_content(prompt)` and
\* `return self._get_fallback_structured_content(response_model, prompt)`
FallbackResult(f, cls, p) ==
    IF f = "generate_content" THEN Returned(Str(FallbackContent(p)), "fallback")
    ELSE ReturnOrPropagate(GetFallbackStructuredContent(cls, p))

\* prompts of the callers (test_ai_client.py, generate_structured_action_plan,
\* generate_structured_career_explanation)
Prompts ==
    << "List 3 important skills for students to develop.",
       "Create an action plan.\n- Grade: 6\nFocus on what a student in grade 6 can do before grade 9.",
       "Explain why the career Data Scientist fits. Student in Grade 11, study hard.",
       "Generate exactly 5 action plan items for a grade 8 student.\n- Grade: 8",
       "Recommend a Study path for this student and state your confidence.",
       "Explain the Confidence score of this match in two sentences." >>

Providers == <<"openai", "groq">>

\* the try block of generate_structured_content, tabulated per provider,
\* response model, prompt and outcome of the provider call
StructuredTryTable ==
    [prov \in {Providers[i] : i \in 1..Len(Providers)} |->
       [cls \in {ResponseModels[i] : i \in 1..Len(ResponseModels)} |->
          [p \in {Prompts[i] : i \in 1..Len(Prompts)} |->
             [n \in 1..Len(OutcomeTable[prov][cls]) |->
                StructuredTry(prov, cls, p, OutcomeTable[prov][cls][n])]]]]

\* the fallback return of either function, tabulated per prompt and response
\* model (generate_content has the response model "str")
FallbackResultTable ==
    [p \in {Prompts[i] : i \in 1..Len(Prompts)} |->
       [cls \in {ResponseModels[i] : i \in 1..Len(ResponseModels)} \cup {"str"} |->
          IF cls = "str" THEN FallbackResult("generate_content", cls, p)
          ELSE FallbackResult("generate_structured_content", cls, p)]]

\* the history entry of an attempt: what it ran into, the path of a returned
\* value, the class and text of the exception, whether a handler took it for a
\* rate limit, and the finish_reason, message.content, message.refusal and
\* message.parsed of the response
Event(r, o, rl) ==
    [e |-> r.ev, origin |-> r.origin, exc |-> r.cls, msg |-> r.msg, rl |-> rl,
     finish |-> o.finish_reason, content |-> o.content, refusal |-> o.refusal,
     parsed |-> o.parsed]

\* what an attempt does once its try block ended as r; rl tells that a handler
\* took the exception for a rate limit
Handle(r, o, rl) ==
    /\ calls' = calls + 1
    /\ repairs' = repairs + r.rep
    /\ events' = Append(events, Event(r, o, rl))
    /\ UNCHANGED <<provider, fn, response_model, prompt, attempt, sleeps>>
    /\ UNCHANGED <<fanvars, svcvars, promptvars, endpointvars>>
    /\ IF r.out = "return"
       THEN /\ pc' = IF r.origin = "fallback" THEN "GiveUp" ELSE "Success"
            /\ result' = Returned(r.v, r.origin)
            /\ delay' = delay
       ELSE IF rl /\ MayRetry(attempt)
       THEN /\ pc' = "Backoff"
            /\ delay' = BackoffDelay(attempt)
            /\ result' = result
       ELSE /\ pc' = "GiveUp"
            /\ result' = FallbackResultTable[prompt][response_model]
            /\ delay' = delay

Finish(r, o) == Handle(r, o, r.out = "raise" /\ IsRateLimit(r))

\* one iteration of the loop of generate_structured_content, up to its return or
\* to the time.sleep of a handler
StructuredAttempt ==
    /\ fn = "generate_structured_content"
    /\ pc = "Attempting"
    /\ LET outs  == OutcomeTable[provider][response_model]
           tries == StructuredTryTable[provider][response_model][prompt]
       IN \E n \in 1..Len(outs) : Finish(tries[n], outs[n])

\* one iteration of the loop of generate_content
ContentAttempt ==
    /\ fn = "generate_content"
    /\ pc = "Attempting"
    /\ LET outs == ContentOutcomes(provider)
       IN \E n \in 1..Len(outs) : Finish(ContentTry(outs[n]), outs[n])

\* time.sleep(delay); continue -- the loop goes on with attempt + 1; when the
\* range is used up the statement after the loop returns the fallback
BackoffSleep ==
    /\ pc = "Backoff"
    /\ sleeps' = Append(sleeps, delay)
    /\ attempt' = attempt + 1
    /\ IF attempt + 1 < max_retries
       THEN pc' = "Attempting" /\ result' = result
       ELSE pc' = "GiveUp" /\ result' = FallbackResultTable[prompt][response_model]
    /\ UNCHANGED <<provider, fn, response_model, prompt, delay, calls, repairs, events>>
    /\ UNCHANGED <<fanvars, svcvars, promptvars, endpointvars>>

----------------------------------------------------------------------------
\* self.ai_client before the service is constructed, of a service whose client
\* could not be constructed, and of one that has a client
Unconstructed == [state |-> "unset", provider |-> "", api_key |-> None]

NoClient == [state |-> "None", provider |-> "", api_key |-> None]

Client(prov, api_key) == [state |-> "AIClient", provider |-> prov, api_key |-> api_key]

\* no report has been returned yet
NoValue == [origin |-> "", raised |-> FALSE]

NoReport ==
    [made |-> FALSE, grade |-> 0, career_matches |-> <<>>, keys |-> <<>>,
     career_insights |-> <<>>,
     values |-> [summary |-> NoValue, skills |-> NoValue, trajectory |-> NoValue]]

\* no service has been constructed and no report asked for
ServiceOff ==
    /\ environ = <<>>
    /\ ai_client = Unconstructed
    /\ startup = <<>>
    /\ report = NoReport
    /\ issued = <<>>

\* no system prompt has been asked for
BuilderOff == profile_data = None /\ system_prompt = ""

NoRequest == [student_profile |-> <<>>, career_matches |-> <<>>, top_buckets |-> <<>>]

NoResponse == [status_code |-> 0, error |-> ""]

\* no HTTP request has been handled
EndpointOff ==
    /\ route = ""
    /\ java_data = None
    /\ request = NoRequest
    /\ steps = <<>>
    /\ response = NoResponse

\* no thread-pool fan-out is running
FanOff ==
    /\ fan = "off"
    /\ skills_to_process = <<>>
    /\ unsteady = {}
    /\ futures = <<>>
    /\ started = 0
    /\ skill_recommendations = <<>>
    /\ output = <<>>

Init ==
    /\ \E i \in 1..Len(Providers) : provider = Providers[i]
    /\ \E i \in 1..Len(Prompts) : prompt = Prompts[i]
    /\ \/ /\ fn = "generate_structured_content"
          /\ \E i \in 1..Len(ResponseModels) : response_model = ResponseModels[i]
       \/ /\ fn = "generate_content"
          /\ response_model = "str"
    /\ pc = "Attempting"
    /\ attempt = 0
    /\ delay = 0
    /\ calls = 0
    /\ sleeps = <<>>
    /\ repairs = 0
    /\ events = <<>>
    /\ result = NoResult
    /\ FanOff
    /\ ServiceOff
    /\ BuilderOff
    /\ EndpointOff

Next ==
    \/ StructuredAttempt
    \/ ContentAttempt
    \/ BackoffSleep

Spec == Init /\ [][Next]_vars

\* a step of an invocation that has not returned: it leaves Attempting or
\* Backoff, as every step of Next does
Advance ==
    /\ pc \in {"Attempting", "Backoff"}
    /\ pc' \in {"Attempting", "Backoff", "Success", "GiveUp"}

\* the function is synchronous: once called it runs on until it returns
FairSpec == Spec /\ WF_pc(Advance)

----------------------------------------------------------------------------
(* Properties of generate_structured_content and generate_content          *)

Structured == fn = "generate_structured_content"

Done == pc \in {"Success", "GiveUp"}

\* the attempt recorded last has just ended: no sleep was taken after it
JustAttempted == Len(events) > 0 /\ attempt = Len(events) - 1

LastEvent == events[Len(events)]

\* the i-th attempt of a groq invocation ended with JSON-mode output that failed
\* validation and was not repaired
RepairFailureAt(i) ==
    /\ Structured
    /\ provider = "groq"
    /\ events[i].e = "validation_failure"

\* the text, lower-cased, holds one of the three rate-limit markers
MentionsRateLimit(msg) ==
    \E sub \in {"429", "rate limit", "too many requests"} : Contains(Lower(msg), sub)

\* C1: every value generate_structured_content returns is an instance of the
\* requested response model with every declared field present and of the
\* declared type, whether it came from the provider, the repair or the fallback
C1_ReturnedValueValidates ==
    (Structured /\ result.kind = "returned") => IsInstance(result.v, response_model)

\* C1 happens: a value built by the repair block has been returned
C1_RepairedValueReturned ==
    Structured /\ pc = "Success" /\ result.kind = "returned" /\ result.origin = "repaired"

\* C2: generate_structured_content never raises to its caller: a finished
\* invocation has returned a value, and one that gave up has returned the
\* fallback
C2_NeverRaises ==
    Structured =>
       /\ result.kind # "raised"
       /\ Done => result.kind = "returned"
       /\ pc = "GiveUp" => result.origin = "fallback"
       /\ pc = "Success" => result.origin \in {"provider", "repaired"}

\* C3: for each of the 14 response models _get_fallback_structured_content
\* returns, without an exception, an instance that validates against the model
C3_FallbackValidates ==
    Structured =>
       /\ GetFallbackStructuredContent(response_model, prompt).ok
       /\ IsInstance(GetFallbackStructuredContent(response_model, prompt).v,
                     response_model)

\* C4: one invocation of generate_structured_content or generate_content makes
\* at most 3 provider calls, whatever the provider does
C4_AtMostThreeCalls == calls <= 3

\* C4 happens: an invocation used all its calls and gave up
C4_ThreeCallsMade == calls = 3 /\ pc = "GiveUp" /\ Len(sleeps) = 2

\* C5: an invocation whose attempts all failed with a rate-limit error has
\* slept 5, then 10, then 20, each sleep being base_delay * 2^attempt
C5_SleepsFiveTenTwenty ==
    (/\ pc = "GiveUp"
     /\ Len(events) = 3
     /\ \A i \in 1..Len(events) : events[i].e = "provider_error" /\ events[i].rl)
    => sleeps = <<5, 10, 20>>

\* C6: with the openai provider a refusal, a finish_reason "length" or a
\* finish_reason "content_filter" on attempt k ends the invocation at once
\* with the fallback: k calls were made and no sleep follows the k - 1 before
C6_TerminalResponseReturnsFallback ==
    (/\ Structured
     /\ provider = "openai"
     /\ Len(events) > 0
     /\ LastEvent.e \in {"refusal", "length", "content_filter"})
    => /\ pc = "GiveUp"
       /\ calls = attempt + 1
       /\ Len(sleeps) = attempt
       /\ result.kind = "returned"
       /\ result.origin = "fallback"

\* C7: with the groq provider a first response whose finish_reason is
\* "length" or "content_filter" gives the fallback after exactly one call,
\* whatever its text
C7_GroqTruncationReturnsFallback ==
    (/\ Structured
     /\ provider = "groq"
     /\ Len(events) > 0
     /\ events[1].e # "provider_error"
     /\ events[1].finish \in {"length", "content_filter"})
    => /\ calls = 1
       /\ pc = "GiveUp"
       /\ result.kind = "returned"
       /\ result.origin = "fallback"

\* C8 as stated: a repair failure on attempt 1 or 2 goes to Backoff, like a
\* rate-limit error, and only on attempt 3 does the client give up
C8_RepairFailureBacksOff ==
    (JustAttempted /\ RepairFailureAt(Len(events)))
    => IF Len(events) < 3 THEN pc = "Backoff" ELSE pc = "GiveUp"

\* C8 amended: a repair failure on attempt 1 or 2 goes to Backoff, with the
\* delay 5 * 2^attempt, exactly when the text of its validation error holds a
\* rate-limit marker; every other repair failure ends the invocation at once,
\* with no sleep and no further call
C8_RepairFailureBacksOffOnMarker ==
    (JustAttempted /\ RepairFailureAt(Len(events)))
    => /\ pc = "Backoff" <=> (Len(events) < 3 /\ MentionsRateLimit(LastEvent.msg))
       /\ pc = "Backoff" => delay = 5 * (2 ^ attempt)
       /\ pc # "Backoff" => (pc = "GiveUp" /\ calls = Len(events)
                                /\ Len(sleeps) = Len(events) - 1)

\* C8 happens: a repair failure on attempt 2 has sent the client to Backoff
C8_RepairFailureInBackoff ==
    JustAttempted /\ Len(events) = 2 /\ RepairFailureAt(2) /\ pc = "Backoff"

\* C9: a repair failure is never retried: it is the last attempt of its
\* invocation, no sleep follows it, and the invocation gives up with the
\* fallback, whatever the response text and the validation error say
C9_RepairFailureIsTerminal ==
    \A i \in 1..Len(events) :
       RepairFailureAt(i) =>
          /\ i = Len(events)
          /\ pc = "GiveUp"
          /\ Len(sleeps) = i - 1
          /\ result.kind = "returned"
          /\ result.origin = "fallback"

\* C10: the repair block runs at most once in an invocation; when it built a
\* value that value is the result, and when it did not the result is the
\* fallback
C10_RepairAtMostOnce ==
    Structured =>
       /\ repairs <= 1
       /\ \A i \in 1..Len(events) :
             events[i].origin = "repaired" => result.origin = "repaired"
       /\ (Done /\ repairs > 0 /\ \A i \in 1..Len(events) : events[i].origin # "repaired")
          => (result.kind = "returned" /\ result.origin = "fallback")

\* a groq attempt for a CareerExplanation has just ended
ExplanationJustAttempted ==
    /\ Structured
    /\ provider = "groq"
    /\ response_model = "CareerExplanation"
    /\ JustAttempted

\* c is a JSON object without the key explanation that carries a text under
\* career_match_explanation
AlternateKeyResponse(c) ==
    /\ c.t = "dict"
    /\ ~HasKey(c.v, "explanation")
    /\ HasKey(c.v, "career_match_explanation")
    /\ Get(c.v, "career_match_explanation", None).t = "str"
    /\ Get(c.v, "career_match_explanation", None).v # ""

\* every other field of CareerExplanation that the object carries has a value of
\* the declared type
OtherFieldsUsable(c) ==
    \A i \in 1..Len(CareerExplanation) :
       \/ CareerExplanation[i][1] = "explanation"
       \/ ~HasKey(c.v, CareerExplanation[i][1])
       \/ Conforms(CareerExplanation[i][2], Get(c.v, CareerExplanation[i][1], None))

\* the returned instance's explanation is the text under career_match_explanation
ExplanationRecovered(c) ==
    /\ pc = "Success"
    /\ result.origin = "repaired"
    /\ Get(result.v.v, "explanation", None).t = "str"
    /\ Get(result.v.v, "explanation", None).v
          = Get(c.v, "career_match_explanation", None).v

\* C11 as stated: a groq response for CareerExplanation that lacks explanation
\* and carries a text under career_match_explanation is repaired, the returned
\* explanation being that text, whatever the text
C11_AlternateKeyRecovered ==
    (ExplanationJustAttempted /\ AlternateKeyResponse(LastEvent.content))
    => ExplanationRecovered(LastEvent.content)

\* C11 amended: the text under career_match_explanation is recovered, and the
\* result is the repaired instance, when it is longer than 50 characters and
\* the other fields the object carries are of the declared types; a text of 50
\* characters or fewer is not recovered and the attempt ends as a repair failure
C11_AlternateKeyRecoveredWhenLong ==
    (/\ ExplanationJustAttempted
     /\ AlternateKeyResponse(LastEvent.content)
     /\ OtherFieldsUsable(LastEvent.content))
    => IF Len(Get(LastEvent.content.v, "career_match_explanation", None).v) > 50
       THEN ExplanationRecovered(LastEvent.content)
       ELSE /\ pc \in {"GiveUp", "Backoff"}
            /\ LastEvent.e = "validation_failure"
            /\ result.origin # "repaired"

\* C11 happens: a text found under career_match_explanation has been returned
C11_AlternateKeyRepaired ==
    /\ ExplanationJustAttempted
    /\ AlternateKeyResponse(LastEvent.content)
    /\ ExplanationRecovered(LastEvent.content)

\* c carries, under its own name, a value for the field
FieldFound(c, name) == c.t = "dict" /\ Truthy(Get(c.v, name, None))

\* C12: the repair block returns an instance only when the JSON object carried a
\* usable value for every required field of CareerExplanation, the explanation
\* under its key or one of the alternate keys; no required field is defaulted
C12_RepairNeedsEveryRequiredField ==
    (Structured /\ result.origin = "repaired")
    => /\ \/ FieldFound(LastEvent.content, "explanation")
          \/ FieldFound(LastEvent.content, "career_match_explanation")
          \/ FieldFound(LastEvent.content, "detailed_explanation")
          \/ FieldFound(LastEvent.content, "analysis")
       /\ \A i \in 1..Len(CareerExplanation) :
             \/ CareerExplanation[i][1] = "explanation"
             \/ FieldFound(LastEvent.content, CareerExplanation[i][1])

\* the prompts that name a grade below 8
YoungPrompts == {Prompts[2]}

\* the fallback of the response model for the i-th prompt is the returned value
SameFallbackFor(i) ==
    /\ GetFallbackStructuredContent(response_model, Prompts[i]).ok
    /\ GetFallbackStructuredContent(response_model, Prompts[i]).v = result.v

\* C20 as stated: the fallback returned for a response model is the same value
\* whatever the prompt of the request
C20_FallbackKeyedBySchemaOnly ==
    (Structured /\ pc = "GiveUp" /\ result.origin = "fallback")
    => \A i \in 1..Len(Prompts) : SameFallbackFor(i)

\* C20 amended: the fallback returned for a response model other than ActionPlan
\* is the same value whatever the prompt; two ActionPlan fallbacks are the same
\* value exactly when both prompts name a grade below 8 or neither does
C20_FallbackKeyedBySchemaAndGradeBand ==
    (Structured /\ pc = "GiveUp" /\ result.origin = "fallback")
    => \A i \in 1..Len(Prompts) :
          IF response_model = "ActionPlan"
          THEN SameFallbackFor(i) <=> (Prompts[i] \in YoungPrompts <=> prompt \in YoungPrompts)
          ELSE SameFallbackFor(i)

\* C20 happens: the ActionPlan fallback was returned for a prompt naming grade 6
C20_YoungActionPlanFallback ==
    /\ Structured
    /\ pc = "GiveUp"
    /\ response_model = "ActionPlan"
    /\ prompt \in YoungPrompts
    /\ result.origin = "fallback"

----------------------------------------------------------------------------
(* AIClient.generate_detailed_skill_recommendations: one generate_content  *)
(* pipeline per skill, run by the threads of a ThreadPoolExecutor          *)

\* ThreadPoolExecutor(max_workers=8)
max_workers == 8

\* num_skills: generate_structured_skill_recommendations yields at most 8 skills
num_skills == 8

\* batches of up to MaxBatch skills are explored with every provider outcome
\* and every completion order
MaxBatch == 3

\* in the batch of num_skills skills the first MaxUnsteady requests are explored
\* with every provider outcome and every completion order
MaxUnsteady == 1

\* the descriptive skill names of the fan-out
SkillNames ==
    << "Problem Solving", "Critical Thinking", "Mathematical Reasoning",
       "Communication Skills", "Teamwork", "Creative Expression",
       "Research Skills", "Digital Literacy" >>

\* q[:8]
Top8(q) == IF Len(q) > 8 THEN SubSeq(q, 1, 8) ELSE q

\* the prompt of generate_detailed_skill_explanation, shortened to its first
\* line and its guideline on careers
SkillPrompt(skill_name) ==
    "Create a short, age-appropriate explanation for the skill: " \o skill_name
       \o "\n- Never mention careers or job names."

\* skill_explanation.strip() of what generate_content falls back to for each
\* skill's prompt
SkillFallbacks ==
    [i \in 1..Len(SkillNames) |-> Strip(FallbackContent(SkillPrompt(SkillNames[i])))]

\* the closure reads the skill of the last request, not of its own
SkillResultLateBound(i, explanation) ==
    [req |-> i, skill_name |-> skills_to_process[Len(skills_to_process)],
     explanation |-> explanation]

\* the dict generate_skill_explanation returns for request i, explanation being
\* skill_explanation.strip() (req names the request that produced it)
SkillResult(i, explanation) ==
    [req |-> i, skill_name |-> skills_to_process[i], explanation |-> explanation]

\* the locals of one generate_content invocation, before its loop
NewPipeline ==
    [st |-> "pending", attempt |-> 0, delay |-> 0, calls |-> 0, sleeps |-> <<>>]

\* the retry state lives on the shared AIClient: a write by one invocation is
\* seen by all of them
WithSharedLocals(fs, i, f) ==
    [j \in 1..Len(fs) |->
       IF j = i THEN f
       ELSE [fs[j] EXCEPT !.attempt = f.attempt, !.delay = f.delay]]

\* invocation i writes its own locals: attempt and delay are local variables of
\* the call frame
WithLocals(fs, i, f) == [fs EXCEPT ![i] = f]

\* requests whose pipeline is running on a worker thread
Busy == {i \in 1..Len(futures) : futures[i].st \in {"Attempting", "Backoff"}}

\* a pool of one thread
OneWorkerFree(busy) == busy < 1

\* the comparison the other way round
WorkerFreeFlipped(busy) == busy > 8

\* the pool runs a work item as long as fewer than max_workers threads are busy
WorkerFree(busy) == busy < max_workers

\* the caller returns at the first result
AnyCollected == Len(skill_recommendations) > 0 \/ Len(futures) = 0

\* the loop over as_completed has yielded every future
AllCollected == Len(skill_recommendations) = Len(futures)

\* the provider answers the steady requests in the order of their submission
InTurn(i) ==
    \/ i \in unsteady
    \/ \A j \in 1..(i - 1) : j \in unsteady \/ futures[j].st \in {"Success", "GiveUp"}

\* what the provider can answer to a request: a text, and for an unsteady
\* request also a rate-limit error or an authentication error
FanOutcomes(prov, shaky) ==
    IF shaky
    THEN << Completion(None, "stop", None, TextContents[1]),
            ProviderErrors(prov)[1],
            ProviderErrors(prov)[3] >>
    ELSE << Completion(None, "stop", None, TextContents[1]) >>

\* how the try block of generate_content ends on outcome o, whether a handler
\* takes its exception for a rate limit, and skill_explanation.strip() of a
\* returned text
FanTry(r) ==
    [out |-> r.out,
     rl |-> r.out = "raise" /\ IsRateLimit(r),
     explanation |-> IF r.out = "return" THEN Strip(r.v.v) ELSE ""]

\* the ends of the try block, tabulated per provider and kind of request
FanTryTable ==
    [prov \in {"openai", "groq"} |->
       [shaky \in BOOLEAN |->
          [k \in 1..Len(FanOutcomes(prov, shaky)) |->
             FanTry(ContentTry(FanOutcomes(prov, shaky)[k]))]]]

\* future_results = [executor.submit(...) for skill_info in skills_to_process[:8]]
Submit ==
    /\ fan = "submitting"
    /\ futures' = [i \in 1..Len(Top8(skills_to_process)) |-> NewPipeline]
    /\ fan' = "collecting"
    /\ UNCHANGED <<svcvars, promptvars, endpointvars>>
    /\ UNCHANGED <<provider, fn, response_model, prompt, pc, attempt, delay, calls,
                   sleeps, repairs, events, result, skills_to_process, unsteady,
                   started, skill_recommendations, output>>

\* a thread of the pool takes the next work item off the queue
Start(i) ==
    /\ fan = "collecting"
    /\ i = started + 1
    /\ i <= Len(futures)
    /\ WorkerFree(Cardinality(Busy))
    /\ started' = i
    /\ futures' = WithLocals(futures, i, [futures[i] EXCEPT !.st = "Attempting"])
    /\ UNCHANGED <<svcvars, promptvars, endpointvars>>
    /\ UNCHANGED <<provider, fn, response_model, prompt, pc, attempt, delay, calls,
                   sleeps, repairs, events, result, fan, skills_to_process, unsteady,
                   skill_recommendations, output>>

\* what one iteration of the generate_content loop of request i does once its
\* try block ended as r
FanHandle(i, r) ==
    LET f == [futures[i] EXCEPT !.calls = @ + 1]
    IN IF r.out = "return"
       THEN /\ futures' = WithLocals(futures, i, [f EXCEPT !.st = "Success"])
            /\ skill_recommendations' =
                  Append(skill_recommendations, SkillResult(i, r.explanation))
       ELSE IF r.rl /\ MayRetry(f.attempt)
       THEN /\ futures' = WithLocals(futures, i,
                             [f EXCEPT !.st = "Backoff",
                                       !.delay = BackoffDelay(f.attempt)])
            /\ skill_recommendations' = skill_recommendations
       ELSE /\ futures' = WithLocals(futures, i, [f EXCEPT !.st = "GiveUp"])
            /\ skill_recommendations' =
                  Append(skill_recommendations,
                         SkillResult(i, SkillFallbacks[i]))

\* request i: one iteration of the loop of generate_content, up to its return
\* (the future completes and as_completed yields it) or to a time.sleep
Call(i) ==
    /\ fan = "collecting"
    /\ i <= Len(futures)
    /\ futures[i].st = "Attempting"
    /\ InTurn(i)
    /\ LET tries == FanTryTable[provider][(i \in unsteady)]
       IN \E k \in 1..Len(tries) : FanHandle(i, tries[k])
    /\ UNCHANGED <<svcvars, promptvars, endpointvars>>
    /\ UNCHANGED <<provider, fn, response_model, prompt, pc, attempt, delay, calls,
                   sleeps, repairs, events, result, fan, skills_to_process, unsteady,
                   started, output>>

\* request i: time.sleep(delay); continue
Sleep(i) ==
    /\ fan = "collecting"
    /\ i <= Len(futures)
    /\ futures[i].st = "Backoff"
    /\ futures' = WithLocals(futures, i,
                     [futures[i] EXCEPT !.st = "Attempting",
                                        !.attempt = @ + 1,
                                        !.sleeps = Append(@, futures[i].delay)])
    /\ UNCHANGED <<svcvars, promptvars, endpointvars>>
    /\ UNCHANGED <<provider, fn, response_model, prompt, pc, attempt, delay, calls,
                   sleeps, repairs, events, result, fan, skills_to_process, unsteady,
                   started, skill_recommendations, output>>

\* return skill_recommendations[:8], once the with block is left
FanReturn ==
    /\ fan = "collecting"
    /\ AllCollected
    /\ output' = Top8(skill_recommendations)
    /\ fan' = "returned"
    /\ UNCHANGED <<svcvars, promptvars, endpointvars>>
    /\ UNCHANGED <<provider, fn, response_model, prompt, pc, attempt, delay, calls,
                   sleeps, repairs, events, result, skills_to_process, unsteady,
                   futures, started, skill_recommendations>>

\* the state at the entry of the fan-out for a batch of n skills
FanEntry(n, bad) ==
    /\ \E i \in 1..Len(Providers) : provider = Providers[i]
    /\ fn = "generate_detailed_skill_recommendations"
    /\ response_model = "str"
    /\ prompt = ""
    /\ pc = "Idle"
    /\ attempt = 0
    /\ delay = 0
    /\ calls = 0
    /\ sleeps = <<>>
    /\ repairs = 0
    /\ events = <<>>
    /\ result = NoResult
    /\ fan = "submitting"
    /\ skills_to_process = SubSeq(SkillNames, 1, n)
    /\ unsteady = bad
    /\ futures = <<>>
    /\ started = 0
    /\ skill_recommendations = <<>>
    /\ output = <<>>
    /\ ServiceOff
    /\ BuilderOff
    /\ EndpointOff

\* a batch of up to MaxBatch skills, all of them unsteady, or the batch of
\* num_skills skills, the first MaxUnsteady of them unsteady
FanInit ==
    \/ \E n \in 0..MaxBatch : FanEntry(n, 1..n)
    \/ FanEntry(num_skills, 1..MaxUnsteady)

Step(i) == Start(i) \/ Call(i) \/ Sleep(i)

FanNext ==
    \/ Submit
    \/ \E i \in 1..num_skills : Start(i)
    \/ \E i \in 1..num_skills : Call(i)
    \/ \E i \in 1..num_skills : Sleep(i)
    \/ FanReturn

FanSpec == FanInit /\ [][FanNext]_vars

\* the threads of the pool and the caller keep running, and every provider call
\* returns or raises
FanFairness ==
    /\ WF_vars(Submit)
    /\ \A i \in 1..num_skills : WF_vars(Step(i))
    /\ WF_vars(FanReturn)

FairFanSpec == FanSpec /\ FanFairness

----------------------------------------------------------------------------
(* Properties of generate_detailed_skill_recommendations                   *)

Finished(i) == i <= Len(futures) /\ futures[i].st \in {"Success", "GiveUp"}

InProgress(i) == i <= Len(futures) /\ futures[i].st \in {"Attempting", "Backoff"}

\* C13: given N skills the fan-out returns N results, one per request and
\* carrying that request's skill_name, whatever the order of completion and
\* whether the pipelines succeeded or fell back; no request runs twice
C13_OneResultPerRequest ==
    fan = "returned" =>
       /\ Len(output) = Len(skills_to_process)
       /\ \A i \in 1..Len(skills_to_process) :
             \E k \in 1..Len(output) :
                /\ output[k].req = i
                /\ output[k].skill_name = skills_to_process[i]
       /\ \A k, l \in 1..Len(output) : output[k].req = output[l].req => k = l
       /\ \A i \in 1..Len(skills_to_process) : Finished(i) /\ futures[i].calls <= 3

\* C13 happens: three results were returned, of a request that fell back, of one
\* that succeeded and of one that finished before both
C13_MixedBatchReturned ==
    /\ fan = "returned"
    /\ Len(output) = 3
    /\ futures[1].st = "GiveUp"
    /\ futures[2].st = "Success"
    /\ output[1].req = 3

\* C14: the returned list is in the order of the requests: result k belongs to
\* request k, whatever the order in which the pipelines complete
C14_OutputInRequestOrder ==
    fan = "returned" => \A k \in 1..Len(output) : output[k].req = k

CanProceed(j) ==
    /\ (futures[j].st = "pending" /\ j = started + 1) => ENABLED Start(j)
    /\ (futures[j].st = "Attempting" /\ InTurn(j)) => ENABLED Call(j)
    /\ futures[j].st = "Backoff" => ENABLED Sleep(j)

\* C16: a request that sleeps in backoff or fell back never blocks, cancels or
\* alters a sibling: every sibling can take its next step, a delivered result
\* stays as it is, and a finished pipeline is not touched again
C16_SiblingsIndependent ==
    /\ [](fan = "collecting" => \A j \in 1..Len(futures) : CanProceed(j))
    /\ [][/\ Len(skill_recommendations') >= Len(skill_recommendations)
          /\ \A k \in 1..Len(skill_recommendations) :
                skill_recommendations'[k] = skill_recommendations[k]
          /\ \A j \in 1..Len(futures) : Finished(j) => futures'[j] = futures[j]]_vars

\* C16 happens: while one request sleeps in backoff a sibling fell back and
\* another delivered its result
C16_SiblingsDeliverDuringBackoff ==
    /\ Len(futures) = 3
    /\ futures[1].st = "Backoff"
    /\ futures[2].st = "GiveUp"
    /\ futures[3].st = "Success"
    /\ Len(skill_recommendations) = 2

\* C17: the fan-out returns only when every pipeline has reached Success or
\* GiveUp, each having delivered its result
C17_ReturnsAfterAllFinished ==
    fan = "returned" =>
       /\ Len(futures) = Len(skills_to_process)
       /\ \A i \in 1..Len(skills_to_process) : Finished(i)
       /\ Len(output) = Len(futures)

\* C17 happens: with 8 requests all 8 pipelines are in progress at once, one of
\* them sleeping in backoff
C17_AllEightInProgress ==
    /\ Len(skills_to_process) = 8
    /\ \A i \in 1..8 : InProgress(i)
    /\ futures[1].st = "Backoff"

\* C18: every submitted request eventually reaches Success or GiveUp and the
\* fan-out eventually returns
C18_EveryRequestFinishes ==
    /\ <>(fan = "returned")
    /\ \A i \in 1..num_skills : (i <= Len(futures)) ~> Finished(i)

\* C18 happens: the batch of 8 was returned after a request used up its attempts
C18_FullBatchReturned ==
    /\ fan = "returned"
    /\ Len(output) = 8
    /\ futures[1].st = "GiveUp"
    /\ futures[1].calls = 3

\* the sleeps of a pipeline are those of its own attempt counter
OwnSleeps(f) ==
    /\ Len(f.sleeps) = f.attempt
    /\ \A k \in 1..Len(f.sleeps) : f.sleeps[k] = 5 * (2 ^ (k - 1))
    /\ f.calls \in {f.attempt, f.attempt + 1}

\* C19: the attempt counter, the delay, the calls and the sleeps of an
\* invocation are changed only by that invocation's own steps, and its sleeps
\* and calls follow from its own attempt counter
C19_RetryStatePrivate ==
    /\ [](\A i \in 1..Len(futures) : OwnSleeps(futures[i]))
    /\ [][\A i \in 1..Len(futures) :
             (Len(futures') = Len(futures) /\ futures'[i] # futures[i])
                => (Start(i) \/ Call(i) \/ Sleep(i))]_vars

\* C19 happens: two invocations run side by side with different attempt counters
C19_DifferentAttemptCounters ==
    /\ Len(futures) >= 2
    /\ futures[1].st = "Backoff"
    /\ futures[1].attempt = 1
    /\ futures[2].st = "Attempting"
    /\ futures[2].attempt = 0
    /\ futures[2].calls = 0

----------------------------------------------------------------------------
(* Further properties of generate_structured_content and generate_content  *)

\* the origin a caller can read off a returned value: the value is the
\* response_model instance itself, so the tag is its attribute `origin`
OriginTag(x) == IF x.t = "model" THEN Get(x.v, "origin", None) ELSE None

\* C21: every value generate_structured_content returns carries an origin tag,
\* one of provider, repaired, fallback, naming the path that produced it
C21_ResultCarriesOrigin ==
    (Structured /\ result.kind = "returned")
    => /\ result.origin \in {"provider", "repaired", "fallback"}
       /\ OriginTag(result.v) = Str(result.origin)

\* the moves of the retry state machine
Moves ==
    { <<"Attempting", "Success">>, <<"Attempting", "Backoff">>,
      <<"Backoff", "Attempting">>, <<"Attempting", "GiveUp">> }

\* a step along one of the moves
Move == <<pc, pc'>> \in Moves

\* C22: an invocation starts in Attempting, moves only along Attempting ->
\* Success, Attempting -> Backoff -> Attempting and Attempting -> GiveUp, and,
\* every provider call returning or raising, reaches Success or GiveUp
C22_StateMachineTerminates ==
    /\ pc = "Attempting"
    /\ [][Move]_vars
    /\ <>Done

\* C22 happens: an invocation went twice through Backoff and then succeeded
C22_SuccessAfterTwoBackoffs == pc = "Success" /\ Len(sleeps) = 2 /\ calls = 3

\* C23: a provider error is retried only as a rate limit: it is taken for one
\* exactly when it is a RateLimitError or its text holds a rate-limit marker,
\* and every other provider error ends the invocation on that attempt with the
\* fallback, without a sleep and without a further call
C23_OnlyRateLimitRetried ==
    (JustAttempted /\ LastEvent.e = "provider_error")
    => /\ LastEvent.rl <=> (\/ LastEvent.exc = "openai.RateLimitError"
                            \/ MentionsRateLimit(LastEvent.msg))
       /\ pc = "Backoff" => LastEvent.rl
       /\ ~LastEvent.rl => /\ pc = "GiveUp"
                           /\ calls = Len(events)
                           /\ Len(sleeps) = Len(events) - 1
                           /\ result.kind = "returned"
                           /\ result.origin = "fallback"

\* the response of the last attempt was refused, truncated or filtered
LastResponseTerminal ==
    \/ Truthy(LastEvent.refusal)
    \/ LastEvent.finish \in {"length", "content_filter"}

\* C24: with the openai provider a response with finish_reason "stop", no
\* refusal and a parsed payload makes the invocation return exactly that
\* payload on that call; a refused, truncated or filtered response never
\* yields a payload of the provider
C24_NativePayloadReturned ==
    (Structured /\ provider = "openai" /\ JustAttempted)
    => /\ (/\ LastEvent.finish = "stop"
           /\ ~Truthy(LastEvent.refusal)
           /\ Truthy(LastEvent.parsed))
          => /\ pc = "Success"
             /\ result = Returned(LastEvent.parsed, "provider")
             /\ calls = Len(events)
             /\ repairs = 0
       /\ LastResponseTerminal
          => /\ pc = "GiveUp"
             /\ ~(result.kind = "returned" /\ result.origin \in {"provider", "repaired"})

\* C24 happens: after a backoff the second response carried a parsed payload,
\* which was returned
C24_ParsedPayloadOnSecondCall ==
    /\ Structured
    /\ provider = "openai"
    /\ calls = 2
    /\ Truthy(LastEvent.parsed)
    /\ LastEvent.finish = "stop"
    /\ result = Returned(LastEvent.parsed, "provider")

\* the i-th attempt got a text from the provider and handed it to
\* model_validate_json, which gave f
PrimaryValidation(i) == ModelValidateJson(response_model, events[i].content)

GotText(i) == events[i].e # "provider_error" /\ events[i].content.t # "None"

\* C27: with the groq provider the repair block runs only on attempts whose
\* text failed model_validate_json; a text that validates is returned as
\* parsed, unrepaired, on the call that produced it
C27_ValidTextReturnedAsParsed ==
    (Structured /\ provider = "groq" /\ JustAttempted)
    => /\ (GotText(Len(events)) /\ PrimaryValidation(Len(events)).ok)
          => /\ pc = "Success"
             /\ result = Returned(PrimaryValidation(Len(events)).v, "provider")
             /\ calls = Len(events)
       /\ repairs <= Cardinality({i \in 1..Len(events) :
                                     GotText(i) /\ ~PrimaryValidation(i).ok})

\* C27 happens: the first text validated as a CareerExplanation and was
\* returned after one call, the repair block never having run
C27_FirstTextValid ==
    /\ Structured
    /\ provider = "groq"
    /\ response_model = "CareerExplanation"
    /\ calls = 1
    /\ repairs = 0
    /\ GotText(1)
    /\ result = Returned(PrimaryValidation(1).v, "provider")

RECURSIVE Sum(_)
Sum(q) == IF q = <<>> THEN 0 ELSE q[1] + Sum(Tail(q))

\* a provider call is made, a sleep is taken
CallMade == calls' # calls

SleepTaken == sleeps' # sleeps

Class(ev) ==
    IF ev.rl THEN "transient"
    ELSE IF ev.origin \in {"provider", "repaired"} THEN "usable"
    ELSE "error"

\* the state of the retry state machine after the outcomes cs, n of them
\* followed by a sleep
MachineState(cs, n) ==
    IF Len(cs) = 0 \/ n = Len(cs) THEN "Attempting"
    ELSE IF cs[Len(cs)] = "usable" THEN "Success"
    ELSE IF cs[Len(cs)] = "transient" /\ Len(cs) < 3 THEN "Backoff"
    ELSE "GiveUp"

\* the retry state machine run on the outcomes of this invocation
FollowsMachine ==
    LET cs == [i \in 1..Len(events) |-> Class(events[i])]
    IN /\ calls = Len(cs)
       /\ \A i \in 1..(Len(cs) - 1) : cs[i] = "transient"
       /\ Len(sleeps) \in {Len(cs) - 1, Len(cs)} \ {-1}
       /\ \A i \in 1..Len(sleeps) : sleeps[i] = 5 * (2 ^ (i - 1))
       /\ pc = MachineState(cs, Len(sleeps))

\* C30: generate_content and generate_structured_content are the same retry
\* state machine: on the same sequence of transient errors, non-transient
\* errors and usable responses both make the same calls, take the same sleeps
\* and end alike, with a value of the provider or with the fallback
C30_SameRetryMachine ==
    /\ FollowsMachine
    /\ pc = "Success" => (result.kind = "returned" /\ result.origin # "fallback")
    /\ pc = "GiveUp" => (result.kind = "returned" /\ result.origin = "fallback")

----------------------------------------------------------------------------
(* AIClient._get_career_counselor_system_prompt                            *)

MaxGrade == 13

\* a chain of comparisons that puts grade 8 with the grades below it
TierFromNine(grade) == IF grade <= 8 THEN 1 ELSE IF grade <= 10 THEN 2 ELSE 3

\* if grade < 8: ... elif grade <= 10: ... else: ...
Tier(grade) == IF grade < 8 THEN 1 ELSE IF grade <= 10 THEN 2 ELSE 3

\* tone_guidance of the three branches
ToneGuidance ==
    << "- Simple, warm, and exploratory. Short sentences. Focus on curiosity, not decisions. Avoid jargon.",
       "- Clear, engaging, and supportive. Balance encouragement with realism. Use relatable examples.",
       "- Mature, direct, and insightful. Empathetic toward academic pressure. Deliver actionable advice." >>

\* grade_context of the three branches
GradeContext(grade) ==
    "Grade Level: " \o ToString(grade) \o
    << " (Primary/Middle School)", " (High School - Early Stage)",
       " (High School - Advanced Stage)" >>[Tier(grade)]

\* name_context = f"\nStudent Name: {name}" if name else ""
NameContext(name) == IF Truthy(name) THEN "\nStudent Name: " \o name.v ELSE ""

\* the fixed text of the f-string before {grade_context}, between {name_context}
\* and {tone_guidance}, and after it (the ellipsis and the dash of the source
\* are written in ASCII)
PromptHead ==
    "You are an **expert career counselor for Indian students**.  \n" \o
    "Understand the Indian educational context (CBSE, ICSE, State Boards, competitive exams).\n" \o
    "\n"

PromptMiddle ==
    "\n" \o
    "\n" \o
    "CORE PRINCIPLES:\n" \o
    "\n" \o
    "1. **PERSONALIZATION**\n" \o
    "   - Address the student by name.\n" \o
    "   - Always cite actual data (e.g., \"Your 62% Artistic score shows...\" not \"You seem creative\").\n" \o
    "   - Avoid generic language.\n" \o
    "\n" \o
    "2. **EMPATHY & EMOTION**\n" \o
    "   - Show care, understanding, and motivation.\n" \o
    "   - Recognize academic pressure.\n" \o
    "   - Celebrate strengths and reassure during uncertainties.\n" \o
    "\n" \o
    "3. **TONE & STYLE**\n" \o
    "   "

PromptTail ==
    "\n" \o
    "   - Conversational yet professional.\n" \o
    "   - Blend short impactful sentences with clear explanations.\n" \o
    "   - Always explain the *why* behind each insight.\n" \o
    "   - Use vivid, relatable examples and phrasing.\n" \o
    "\n" \o
    "4. **DEPTH & CONTEXT**\n" \o
    "   - Link the student's grade, subjects, and scores to their future.\n" \o
    "   - Explain *what*, *why*, and *how* of every recommendation.\n" \o
    "   - Reference Indian education realities (boards, entrance exams, etc.).\n" \o
    "\n" \o
    "5. **SPECIFICITY**\n" \o
    "   - Use real numbers, subject names, and activities.\n" \o
    "   - Provide actionable steps - not vague encouragement.\n" \o
    "\n" \o
    "6. **MENTOR APPROACH**\n" \o
    "   - Write as a caring mentor who knows them personally.\n" \o
    "   - Show excitement about their growth and potential.\n" \o
    "   - Balance realism with optimism.\n" \o
    "\n" \o
    "**Goal:** Every message should make the student feel understood, supported, and motivated about their future."

\* _get_career_counselor_system_prompt(profile_data)
SystemPrompt(pd) ==
    LET grade == IF Truthy(pd) THEN Get(pd.v, "grade", Num(0)).v ELSE 0
        name  == IF Truthy(pd) THEN Get(pd.v, "name", Str("Student")) ELSE None
    IN PromptHead \o GradeContext(grade) \o NameContext(name) \o PromptMiddle
       \o ToneGuidance[Tier(grade)] \o PromptTail

Names == << Str("Asha"), Str("Ravi Kumar"), Str("") >>

Grades == (0 - 1)..MaxGrade

\* the profile_data the callers pass: nothing, an empty dict, or a dict with an
\* int grade (StudentProfile.grade), a name, or both
Profiles ==
    {None, Dict(<<>>)}
    \cup {Dict(<< <<"grade", Num(g)>> >>) : g \in Grades}
    \cup {Dict(<< <<"name", Names[i]>> >>) : i \in 1..Len(Names)}
    \cup {Dict(<< <<"name", Names[i]>>, <<"grade", Num(g)>> >>) :
             i \in 1..Len(Names), g \in Grades}

\* no client invocation is running
ClientOff ==
    /\ provider = "openai"
    /\ fn = ""
    /\ response_model = "str"
    /\ prompt = ""
    /\ pc = "Idle"
    /\ attempt = 0
    /\ delay = 0
    /\ calls = 0
    /\ sleeps = <<>>
    /\ repairs = 0
    /\ events = <<>>
    /\ result = NoResult

PromptInit ==
    /\ profile_data \in Profiles
    /\ system_prompt = ""
    /\ ClientOff
    /\ FanOff
    /\ ServiceOff
    /\ EndpointOff

\* one call of the builder
BuildSystemPrompt ==
    /\ system_prompt = ""
    /\ system_prompt' = SystemPrompt(profile_data)
    /\ UNCHANGED <<profile_data, clientvars, fanvars, svcvars, endpointvars>>

PromptNext == BuildSystemPrompt

PromptSpec == PromptInit /\ [][PromptNext]_vars

\* the grade of the profile, 0 when the profile or its grade is missing
GradeOrZero ==
    IF profile_data.t = "dict" /\ HasKey(profile_data.v, "grade")
    THEN Get(profile_data.v, "grade", None).v
    ELSE 0

TonesIn(s) == {i \in 1..3 : Contains(s, ToneGuidance[i])}

\* C25: the system prompt holds exactly one of the three tone policies: the
\* simple one for a grade below 8, the balanced one for a grade from 8 to 10,
\* the direct one for a grade above 10, a missing profile or grade counting as
\* grade 0; it is a function of the profile alone and building it changes
\* nothing else
C25_ToneByGradeThreshold ==
    /\ [](system_prompt # "" =>
            /\ TonesIn(system_prompt) =
                  {IF GradeOrZero < 8 THEN 1 ELSE IF GradeOrZero <= 10 THEN 2 ELSE 3}
            /\ Contains(system_prompt, "Grade Level: " \o ToString(GradeOrZero) \o " (")
            /\ \A p \in Profiles : p = profile_data => system_prompt = SystemPrompt(p))
    /\ [][UNCHANGED <<profile_data, clientvars, fanvars, svcvars, endpointvars>>]_vars

\* C25 happens: the prompt of a grade-8 profile was built, with the balanced
\* policy
C25_GradeEightBalanced ==
    /\ profile_data.t = "dict"
    /\ GradeOrZero = 8
    /\ Contains(system_prompt, ToneGuidance[2])

----------------------------------------------------------------------------
(* AIClient.__init__, AIGenerationService.__init__ and                     *)
(* AIGenerationService.generate_detailed_report                            *)

MaxCareers == 6

\* a test that takes only an unset variable for missing
MissingIfUnset(api_key) == api_key.t = "None"

\* if not self.api_key
Missing(api_key) == ~Truthy(api_key)

\* os.getenv(name, default)
GetEnv(env, name, default) == IF env[name].t = "None" THEN default ELSE env[name]

\* AIClient(): the client, or the ValueError the constructor raises
AIClientInit(env) ==
    LET prov == Lower(GetEnv(env, "AI_MODEL_PROVIDER", Str("openai")).v)
        name == IF prov = "openai" THEN "OPENAI_API_KEY" ELSE "GROQ_API_KEY"
    IN IF prov \notin {"openai", "groq"}
       THEN [ok |-> FALSE, provider |-> prov, api_key |-> None,
             msg |-> "Unsupported AI provider: " \o prov
                     \o ". Supported providers: openai, groq"]
       ELSE IF Missing(GetEnv(env, name, None))
       THEN [ok |-> FALSE, provider |-> prov, api_key |-> None,
             msg |-> name \o " environment variable is required"]
       ELSE [ok |-> TRUE, provider |-> prov, api_key |-> env[name], msg |-> ""]

\* a service that takes the client for constructed
ClientAssumed(c) == c.state \in {"AIClient", "None"}

\* if self.ai_client
HasClient(c) == c.state = "AIClient"

EnvProviders == << None, Str("openai"), Str("groq"), Str("OpenAI"), Str("azure") >>

OpenAIKeys == << None, Str(""), Str("sk-test") >>

GroqKeys == << None, Str(""), Str("gsk-test") >>

\* the process starts: endpoints.py is imported and has not yet run
\* `ai_service = AIGenerationService()`
ServiceInit ==
    /\ \E i \in 1..Len(EnvProviders), j \in 1..Len(OpenAIKeys), k \in 1..Len(GroqKeys) :
          environ = [AI_MODEL_PROVIDER |-> EnvProviders[i],
                     OPENAI_API_KEY |-> OpenAIKeys[j],
                     GROQ_API_KEY |-> GroqKeys[k]]
    /\ ai_client = Unconstructed
    /\ startup = <<>>
    /\ report = NoReport
    /\ issued = <<>>
    /\ ClientOff
    /\ FanOff
    /\ BuilderOff
    /\ EndpointOff

\* AIGenerationService.__init__: try AIClient(), except ValueError: None
Startup ==
    /\ ai_client.state = "unset"
    /\ LET c == AIClientInit(environ)
       IN /\ ai_client' = IF c.ok THEN Client(c.provider, c.api_key) ELSE NoClient
          /\ startup' = IF c.ok THEN startup ELSE Append(startup, c.msg)
    /\ UNCHANGED <<environ, report, issued, clientvars, fanvars, promptvars, endpointvars>>

CareerName(i) == "Career " \o ToString(i)

\* every career match, not the first five
AllCareers(q) == SubSeq(q, 1, Len(q))

\* career_matches[:5]
TopFive(q) == SubSeq(q, 1, IF Len(q) < 5 THEN Len(q) ELSE 5)

\* a call of an AIClient method, made with the client's credential
ClientCall(c, method, career) == [method |-> method, career |-> career, api_key |-> c.api_key]

\* one method of the service that asks the client when there is one; skip
\* tells that the method returned before asking
Ask(c, method, skip) ==
    IF HasClient(c) /\ ~skip THEN <<ClientCall(c, method, "")>> ELSE <<>>

\* enhance_career_insights: the calls made for the careers q[i..]
RECURSIVE InsightCalls(_, _, _)
InsightCalls(c, q, i) ==
    IF i > Len(q) THEN <<>>
    ELSE (IF HasClient(c)
          THEN << ClientCall(c, "generate_career_explanation", q[i]),
                  ClientCall(c, "generate_study_path", q[i]),
                  ClientCall(c, "generate_confidence_explanation", q[i]) >>
          ELSE <<>>)
         \o InsightCalls(c, q, i + 1)

\* one dict of EnhancedCareerInsights: its keys with the origin of the values
InsightDict(c, q) ==
    [i \in 1..Len(q) |-> <<q[i], IF HasClient(c) THEN "ai" ELSE "placeholder">>]

EnhancedCareerInsights(c, q) ==
    [detailed_explanations |-> InsightDict(c, q),
     personalized_study_paths |-> InsightDict(c, q),
     confidence_explanations |-> InsightDict(c, q)]

\* the value one method of the service computes: the client's when it is
\* asked, else the placeholder text; indexed tells that the placeholder reads
\* career_matches[0], an IndexError on an empty list
Value(c, skip, q, indexed) ==
    IF skip THEN [origin |-> "placeholder", raised |-> FALSE]
    ELSE IF HasClient(c) THEN [origin |-> "ai", raised |-> FALSE]
    ELSE [origin |-> "placeholder", raised |-> indexed /\ Len(q) = 0]

\* generate_detailed_report(profile, career_matches): the dict it returns and
\* the client calls made while its values were computed, in their order
DetailedReport(c, grade, career_matches) ==
    LET none == Len(career_matches) = 0
    IN IF grade < 8
       THEN [keys |-> <<"career_insights", "summary", "skills", "detailed_skills",
                        "trajectory">>,
             values |-> [summary |-> Value(c, none, career_matches, TRUE),
                         skills |-> Value(c, FALSE, career_matches, FALSE),
                         trajectory |-> Value(c, none, career_matches, TRUE)],
             career_insights |-> EnhancedCareerInsights(c, <<>>),
             calls |-> Ask(c, "generate_skill_recommendations", FALSE)
                       \o Ask(c, "generate_detailed_skill_recommendations", none)
                       \o Ask(c, "generate_skill_focused_summary", none)
                       \o Ask(c, "generate_skill_development_trajectory", none)]
       ELSE [keys |-> <<"career_insights", "summary", "skills", "trajectory">>,
             values |-> [summary |-> Value(c, none, career_matches, TRUE),
                         skills |-> Value(c, FALSE, career_matches, FALSE),
                         trajectory |-> Value(c, none, career_matches, TRUE)],
             career_insights |-> EnhancedCareerInsights(c, TopFive(career_matches)),
             calls |-> InsightCalls(c, TopFive(career_matches), 1)
                       \o Ask(c, "generate_personalized_summary", none)
                       \o Ask(c, "generate_skill_recommendations", FALSE)
                       \o Ask(c, "generate_career_trajectory", none)]

\* one request served by ai_service.generate_detailed_report
GenerateDetailedReport ==
    /\ ai_client.state # "unset"
    /\ \E grade \in Grades, n \in 0..MaxCareers :
          LET career_matches == [i \in 1..n |-> CareerName(i)]
              r == DetailedReport(ai_client, grade, career_matches)
          IN /\ report' = [made |-> TRUE, grade |-> grade, career_matches |-> career_matches,
                           keys |-> r.keys, career_insights |-> r.career_insights,
                           values |-> r.values]
             /\ issued' = r.calls
    /\ UNCHANGED <<environ, ai_client, startup, clientvars, fanvars, promptvars, endpointvars>>

ServiceNext == Startup \/ GenerateDetailedReport

ServiceSpec == ServiceInit /\ [][ServiceNext]_vars

----------------------------------------------------------------------------
(* Properties of the service                                               *)

\* the provider the environment selects, and its credential
SelectedProvider == Lower(GetEnv(environ, "AI_MODEL_PROVIDER", Str("openai")).v)

SelectedKey ==
    IF SelectedProvider = "openai" THEN environ.OPENAI_API_KEY
    ELSE IF SelectedProvider = "groq" THEN environ.GROQ_API_KEY
    ELSE None

CredentialMissing == SelectedKey.t = "None" \/ SelectedKey.v = ""

\* C26: a missing credential of the selected provider is detected once, when
\* the client is constructed at process start: the service then has no client
\* for the life of the process, no request evaluates the credential again or
\* fails for it, and no client call is ever made without a credential
C26_MissingCredentialCaughtAtStartup ==
    /\ []((ai_client.state # "unset" /\ CredentialMissing)
            => (~HasClient(ai_client) /\ Len(startup) = 1))
    /\ [](report.made => (CredentialMissing <=> issued = <<>>))
    /\ [](\A i \in 1..Len(issued) :
            ~CredentialMissing /\ issued[i].api_key = SelectedKey)
    /\ [][ai_client.state # "unset" =>
            (ai_client' = ai_client /\ startup' = startup /\ environ' = environ)]_vars

\* C26 happens: the groq key is missing, the service started without a client
\* and has served a report
C26_ServedWithoutCredential ==
    /\ SelectedProvider = "groq"
    /\ CredentialMissing
    /\ Len(startup) = 1
    /\ report.made
    /\ Len(report.career_matches) > 0

CareerSpecific ==
    {"generate_career_explanation", "generate_study_path",
     "generate_confidence_explanation"}

InsightKeys(d) == [i \in 1..Len(d) |-> d[i][1]]

Has(q, x) == \E i \in 1..Len(q) : q[i] = x

\* C28: for a grade below 8 the report is built without a career-specific
\* generation, its career insights are empty and it has the key
\* detailed_skills; from grade 8 on the insights are those of the first 5
\* career matches at most and there is no key detailed_skills
C28_ReportBranchesOnGrade ==
    report.made =>
       LET ci == report.career_insights
           top == SubSeq(report.career_matches, 1,
                         IF Len(report.career_matches) < 5
                         THEN Len(report.career_matches) ELSE 5)
       IN IF report.grade < 8
          THEN /\ \A i \in 1..Len(issued) : issued[i].method \notin CareerSpecific
               /\ ci.detailed_explanations = <<>>
               /\ ci.personalized_study_paths = <<>>
               /\ ci.confidence_explanations = <<>>
               /\ Has(report.keys, "detailed_skills")
          ELSE /\ InsightKeys(ci.detailed_explanations) = top
               /\ InsightKeys(ci.personalized_study_paths) = top
               /\ InsightKeys(ci.confidence_explanations) = top
               /\ \A i \in 1..Len(issued) :
                     issued[i].method \in CareerSpecific => Has(top, issued[i].career)
               /\ ~Has(report.keys, "detailed_skills")

\* C28 happens: with a client, a grade-7 profile with 6 career matches got its
\* report from skill generations only
C28_YoungProfileReport ==
    /\ report.made
    /\ report.grade = 7
    /\ Len(report.career_matches) = 6
    /\ Len(issued) = 4

\* ---------------------------------------------------------------------------
\* generate_content as a total function (ai_client.py:117-197)
\* ---------------------------------------------------------------------------

ContentCall == fn = "generate_content"

\* the four fixed texts of _get_fallback_content
FallbackTexts == {FallbackContent(Prompts[i]) : i \in 1..Len(Prompts)}

\* the invocation ended on a provider error that is not a rate limit, or on
\* the last attempt
EndedOnError ==
    /\ Len(events) > 0
    /\ LastEvent.e \in {"provider_error", "no_content"}

\* C31: generate_content never raises and returns a string; the string has at
\* least one character; and when the invocation ends on a provider error
\* (exhaustion, a non-rate-limit error, or a response without content) the
\* string is one of the fixed fallback texts, the one chosen by the prompt.
C31_ContentTotalNonEmpty ==
    (ContentCall /\ Done) =>
        /\ result.kind = "returned"
        /\ result.v.t = "str"
        /\ result.v.v # ""
        /\ EndedOnError =>
              /\ result.v.v \in FallbackTexts
              /\ result.v.v = FallbackContent(prompt)

\* the same without the length: never raises, returns a string, fallback text
\* after an error
C31_ContentTotal ==
    (ContentCall /\ Done) =>
        /\ result.kind = "returned"
        /\ result.v.t = "str"
        /\ EndedOnError =>
              /\ result.v.v \in FallbackTexts
              /\ result.v.v = FallbackContent(prompt)

\* the last attempt got a completion of the native-structured call
NativeResponse ==
    /\ Structured /\ provider = "openai" /\ JustAttempted
    /\ LastEvent.e # "provider_error"

\* the check that the claimed order refusal, length, content_filter, parsed
\* lets decide about the last response
FirstCheckInOrder ==
    IF Truthy(LastEvent.refusal) THEN "refusal"
    ELSE IF LastEvent.finish = "length" THEN "length"
    ELSE IF LastEvent.finish = "content_filter" THEN "content_filter"
    ELSE IF Truthy(LastEvent.parsed) THEN "parsed"
    ELSE "content"

\* the fallback of the invocation's response model is what the caller received
FallbackDelivered ==
    /\ GetFallbackStructuredContent(response_model, prompt).ok
    /\ result = Returned(GetFallbackStructuredContent(response_model, prompt).v, "fallback")

\* C32: on the native-structured path the response is judged by the checks
\* refusal, length, content_filter, parsed payload, in this order; a refused,
\* truncated or filtered response ends the invocation with the fallback of the
\* response model on that call, also when it carries a parsed payload, and a
\* parsed payload is returned only from a complete response.
C32_ChecksOrderedFallbackFirst ==
    NativeResponse =>
        /\ FirstCheckInOrder \in {"refusal", "length", "content_filter", "parsed"}
              => LastEvent.e = FirstCheckInOrder
        /\ FirstCheckInOrder = "content"
              => LastEvent.e \in {"validated", "validation_failure", "no_content"}
        /\ LastResponseTerminal
              => /\ pc = "GiveUp"
                 /\ calls = Len(events)
                 /\ FallbackDelivered
        /\ (result.kind = "returned" /\ result.origin = "provider" /\ Truthy(LastEvent.parsed))
              => /\ ~LastResponseTerminal
                 /\ result.v = LastEvent.parsed

\* the last attempt of a JSON-mode invocation for a response model other than
\* CareerExplanation produced output that failed validation
OtherModelInvalid ==
    /\ Structured /\ provider = "groq" /\ JustAttempted
    /\ response_model # "CareerExplanation"
    /\ LastEvent.e = "validation_failure"

\* C33: the repair block runs for the CareerExplanation schema only; for every
\* other response model JSON-mode output that fails validation is not repaired,
\* and the invocation ends on that provider call with the model's fallback.
C33_RepairOnlyForCareerExplanation ==
    /\ repairs > 0 => (Structured /\ response_model = "CareerExplanation")
    /\ OtherModelInvalid =>
          /\ repairs = 0
          /\ pc = "GiveUp"
          /\ calls = Len(events)
          /\ FallbackDelivered

\* the keys of the repair block in the claimed priority
ProbeOrder == <<"explanation", "career_match_explanation", "detailed_explanation", "analysis">>

\* the value the claimed probing chooses in the JSON object c: the value of the
\* first key of ProbeOrder that holds a non-empty value, else str(c)
ChosenText(c) ==
    LET hits == {i \in 1..Len(ProbeOrder) : Truthy(Get(c.v, ProbeOrder[i], None))}
    IN IF hits = {} THEN PyStr(c)
       ELSE Get(c.v, ProbeOrder[CHOOSE i \in hits : \A j \in hits : i <= j], None)

\* the last attempt for a CareerExplanation produced output that failed the
\* validation of model_validate_json
ExplanationInvalid ==
    /\ ExplanationJustAttempted
    /\ LastEvent.content.t # "None"
    /\ ~ModelValidateJson("CareerExplanation", LastEvent.content).ok

\* C34: the repair of a CareerExplanation takes the first non-empty value among
\* the keys explanation, career_match_explanation, detailed_explanation,
\* analysis, in this order, and str() of the whole object when none is present;
\* it returns a payload only when the chosen text is longer than 50 characters,
\* the payload's explanation being that text, and in every other case the
\* validation error of model_validate_json is raised again.
C34_RepairProbesKeysInOrder ==
    ExplanationInvalid =>
        IF result.origin = "repaired"
        THEN /\ pc = "Success"
             /\ LastEvent.content.t = "dict"
             /\ ChosenText(LastEvent.content).t = "str"
             /\ Len(ChosenText(LastEvent.content).v) > 50
             /\ Get(result.v.v, "explanation", None) = ChosenText(LastEvent.content)
        ELSE /\ LastEvent.e = "validation_failure"
             /\ LastEvent.exc = "ValidationError"
             /\ LastEvent.msg = ModelValidateJson("CareerExplanation", LastEvent.content).msg
             /\ pc \in {"GiveUp", "Backoff"}

\* C34 happens: an object carrying detailed_explanation and analysis, and
\* neither of the two keys before them, was repaired with the text of
\* detailed_explanation
C34_SecondLastKeyChosen ==
    /\ ExplanationInvalid
    /\ result.origin = "repaired"
    /\ ~HasKey(LastEvent.content.v, "explanation")
    /\ ~HasKey(LastEvent.content.v, "career_match_explanation")
    /\ Truthy(Get(LastEvent.content.v, "analysis", None))
    /\ Get(result.v.v, "explanation", None) = Get(LastEvent.content.v, "detailed_explanation", None)

\* the number of items of the action plan x
ItemCount(x) == Len(Get(x.v, "items", None).v)

\* the last JSON-mode response for an ActionPlan carried a list of items that
\* was not 5 long
WrongItemCount ==
    /\ Structured /\ provider = "groq" /\ response_model = "ActionPlan" /\ JustAttempted
    /\ LastEvent.content.t = "dict"
    /\ Get(LastEvent.content.v, "items", None).t = "list"
    /\ Len(Get(LastEvent.content.v, "items", None).v) # 5

\* C35: every ActionPlan the structured call returns has exactly 5 items: a
\* JSON-mode response with another number of items fails validation and is not
\* returned, and the fallback is the 5-item plan of the tier of the first
\* 'grade <number>' of the prompt (below 8, or 8 and above), the tier of grade
\* 11 when the prompt names no grade.
C35_ActionPlanHasFiveItems ==
    (Structured /\ response_model = "ActionPlan") =>
        /\ result.kind # "raised"
        /\ result.kind = "returned" =>
              /\ Get(result.v.v, "items", None).t = "list"
              /\ ItemCount(result.v) = 5
        /\ WrongItemCount =>
              /\ LastEvent.e = "validation_failure"
              /\ result.origin # "provider"
        /\ (result.kind = "returned" /\ result.origin = "fallback") =>
              Get(result.v.v, "items", None)
                 = List(IF prompt \in YoungPrompts THEN ActionPlanBelow8 ELSE ActionPlanFrom8)

\* C35 happens: a response with 6 items was answered with the 5 items of the
\* tier below 8, for a prompt that names grade 6 first and grade 9 after it
C35_SixItemsAnsweredByYoungFallback ==
    /\ WrongItemCount
    /\ Len(Get(LastEvent.content.v, "items", None).v) = 6
    /\ prompt = Prompts[2]
    /\ result.kind = "returned"
    /\ result.origin = "fallback"
    /\ Get(result.v.v, "items", None) = List(ActionPlanBelow8)

\* ---------------------------------------------------------------------------
\* The list-returning wrappers (ai_client.py:763-787, 1009-1031): what
\* generate_career_skills and generate_career_courses hand back once the
\* structured call they make ended with the result r
\* ---------------------------------------------------------------------------

\* q[:n]
Prefix(q, n) == SubSeq(q, 1, IF Len(q) < n THEN Len(q) ELSE n)

GenericSkills(career_name) ==
    << "Foundational knowledge in " \o career_name, "Problem solving",
       "Critical thinking", "Communication skills", "Technical aptitude" >>

GenericCourses(career_name) ==
    << "Introductory course in " \o career_name, "Relevant online certification",
       "University degree program" >>

\* try: return <structured call>.skills[:5]; except Exception: return the generic list
GenerateCareerSkills(r, career_name) ==
    IF r.kind = "returned" THEN Prefix(Get(r.v.v, "skills", None).v, 5)
    ELSE GenericSkills(career_name)

\* try: return <structured call>.courses[:3]; except Exception: return the generic list
GenerateCareerCourses(r, career_name) ==
    IF r.kind = "returned" THEN Prefix(Get(r.v.v, "courses", None).v, 3)
    ELSE GenericCourses(career_name)

\* the structured call of a wrapper has ended
SkillsCallDone == Structured /\ response_model = "CareerSkills" /\ Done

CoursesCallDone == Structured /\ response_model = "CareerCourses" /\ Done

\* C36: generate_career_skills and generate_career_courses never raise: whatever
\* the provider did, they return a list that is not empty, of at most 5 skills
\* and at most 3 courses, and the list is their own generic one when the
\* structured call did not deliver a payload.
C36_ListWrappersTotalNonEmpty ==
    /\ SkillsCallDone =>
          /\ result.kind \in {"returned", "raised"}
          /\ result.kind = "returned" => Get(result.v.v, "skills", None).t = "list"
          /\ Len(GenerateCareerSkills(result, "Data Scientist")) \in 1..5
          /\ result.kind = "raised"
                => GenerateCareerSkills(result, "Data Scientist") = GenericSkills("Data Scientist")
    /\ CoursesCallDone =>
          /\ result.kind \in {"returned", "raised"}
          /\ result.kind = "returned" => Get(result.v.v, "courses", None).t = "list"
          /\ Len(GenerateCareerCourses(result, "Data Scientist")) \in 1..3
          /\ result.kind = "raised"
                => GenerateCareerCourses(result, "Data Scientist") = GenericCourses("Data Scientist")

\* the service was started without a client and has served a request that
\* carried at least one career match
FallbackModeReport ==
    /\ report.made
    /\ ai_client.state = "None"
    /\ Len(report.career_matches) >= 1

\* every value of the insights dict d is placeholder text
AllPlaceholder(d) == \A i \in 1..Len(d) : d[i][2] = "placeholder"

\* C37: when the construction of the client fails at service start the service
\* keeps ai_client = None, and generate_detailed_report then, for every profile
\* with at least one career match, makes no client call, raises nothing and
\* returns a dict with career_insights, summary, skills and trajectory, all of
\* them placeholder content.
C37_FallbackModeReport ==
    /\ (ai_client.state # "unset" /\ ~AIClientInit(environ).ok)
          => (ai_client = NoClient /\ Len(startup) = 1)
    /\ FallbackModeReport =>
          /\ issued = <<>>
          /\ \A k \in {"career_insights", "summary", "skills", "trajectory"} :
                Has(report.keys, k)
          /\ \A k \in {"summary", "skills", "trajectory"} :
                /\ ~report.values[k].raised
                /\ report.values[k].origin = "placeholder"
          /\ AllPlaceholder(report.career_insights.detailed_explanations)
          /\ AllPlaceholder(report.career_insights.personalized_study_paths)
          /\ AllPlaceholder(report.career_insights.confidence_explanations)
          /\ report.grade >= 8
                => Len(report.career_insights.detailed_explanations)
                      = (IF Len(report.career_matches) < 5
                         THEN Len(report.career_matches) ELSE 5)

\* C37 happens: the environment names a provider the client does not support,
\* and the service served a grade-10 profile with 6 career matches from
\* placeholders
C37_UnsupportedProviderReport ==
    /\ FallbackModeReport
    /\ SelectedProvider = "azure"
    /\ report.grade = 10
    /\ Len(report.career_matches) = 6
    /\ Len(report.career_insights.detailed_explanations) = 5

----------------------------------------------------------------------------
(* The report endpoints of app/api/endpoints.py, with the validation and   *)
(* transformation services they call.  The module creates ai_service when  *)
(* it is imported (Startup); each handler is one action.                   *)

Absent == [t |-> "absent", v |-> <<>>]

\* the key with its value, or nothing when the body leaves the key out
Field(key, x) == IF x.t = "absent" THEN <<>> ELSE << <<key, x>> >>

Keys(d) == {d.v[i][1] : i \in 1..Len(d.v)}

RiasecKeys == {"R", "I", "A", "S", "E", "C"}

Scores(i) ==
    Dict(<< <<"R", Num(15)>>, <<"I", Num(i)>>, <<"A", Num(20)>>, <<"S", Num(10)>>,
            <<"E", Num(5)>>, <<"C", Num(5)>> >>)

JavaCareer(name) ==
    Dict(<< <<"careerName", Str(name)>>, <<"matchScore", Num(88)>>,
            <<"confidence", Str("High")>> >>)

JavaBucket(name, careers) ==
    Dict(Field("bucketName", name)
         \o << <<"bucketScore", Num(88)>>, <<"topCareers", List(careers)>> >>)

\* the values a body can carry under each of its keys
JavaNames == << Absent, Str(""), Str("Asha") >>

JavaGrades == << Num(7), Num(10), Num(13), Str("10"), Str("ten") >>

JavaScores ==
    << Scores(45), Scores(101), Dict(<< <<"R", Num(15)>>, <<"I", Num(45)>> >>) >>

JavaBuckets ==
    << Absent, List(<<>>),
       List(<< JavaBucket(Str("Technology"), <<JavaCareer("Software Engineer")>>) >>),
       List(<< JavaBucket(Str("Technology"), <<JavaCareer("Software Engineer"),
                                               JavaCareer("Data Scientist")>>),
               JavaBucket(Str("Design"), <<>>) >>),
       List(<< JavaBucket(Str("Technology"), <<>>) >>),
       List(<< JavaBucket(Absent, <<JavaCareer("Software Engineer")>>) >>) >>

JavaData(name, grade, scores, buckets) ==
    Dict(Field("studentName", name) \o Field("grade", grade)
         \o << <<"board", Str("CBSE")>> >>
         \o Field("vibeScores", scores) \o Field("top5Buckets", buckets))

\* errors.append(...) for every element of q that f gives a message for
RECURSIVE Collect(_, _, _)
Collect(f(_, _), q, i) ==
    IF i > Len(q) THEN <<>> ELSE f(q[i], i) \o Collect(f, q, i + 1)

\* TransformationService.validate_java_data_structure: the errors it lists
StructureErrors(jd) ==
    LET required == <<"studentName", "grade", "board", "vibeScores", "top5Buckets">>
        MissingField(field, i) ==
            IF HasKey(jd.v, field) THEN <<>> ELSE <<"Missing required field: " \o field>>
        vibe_scores == Get(jd.v, "vibeScores", None)
        top5_buckets == Get(jd.v, "top5Buckets", None)
        BucketErrors(bucket, i) ==
            IF bucket.t # "dict" THEN <<"top5Buckets[i] must be a dictionary">>
            ELSE (IF HasKey(bucket.v, "bucketName") THEN <<>>
                  ELSE <<"top5Buckets[i] missing bucketName">>)
                 \o (IF HasKey(bucket.v, "bucketScore") THEN <<>>
                     ELSE <<"top5Buckets[i] missing bucketScore">>)
                 \o (IF HasKey(bucket.v, "topCareers") THEN <<>>
                     ELSE <<"top5Buckets[i] missing topCareers">>)
    IN Collect(MissingField, required, 1)
       \o (IF ~HasKey(jd.v, "vibeScores") THEN <<>>
           ELSE IF vibe_scores.t # "dict" THEN <<"vibeScores must be a dictionary">>
           ELSE IF Keys(vibe_scores) # RiasecKeys
           THEN <<"vibeScores must contain all RIASEC keys">>
           ELSE <<>>)
       \o (IF ~HasKey(jd.v, "top5Buckets") THEN <<>>
           ELSE IF top5_buckets.t # "list" THEN <<"top5Buckets must be a list">>
           ELSE IF Len(top5_buckets.v) = 0 THEN <<"top5Buckets cannot be empty">>
           ELSE Collect(BucketErrors, top5_buckets.v, 1))

\* CareerMatch(...) as _transform_career_matches builds it
CareerMatch(career, bucket_name) ==
    [career_name |-> Get(career.v, "careerName", Str("")).v,
     match_score |-> Get(career.v, "matchScore", Num(0)).v,
     bucket |-> bucket_name,
     riasec_profile |-> "",
     confidence |-> Get(career.v, "confidence", Str("Medium")).v]

BucketCareers(bucket) ==
    LET careers == Get(bucket.v, "topCareers", List(<<>>)).v
    IN [k \in 1..Len(careers) |->
          CareerMatch(careers[k], Get(bucket.v, "bucketName", Str("")).v)]

\* int fields of the pydantic models: an int, or a string of digits
IntLike(x) == x.t = "int" \/ (x.t = "str" /\ IsNumeric(x.v))

AsInt(x) == IF x.t = "int" THEN x.v ELSE ParseInt(x.v)

\* TransformationService.transform_java_to_internal: the request, or the
\* ValueError raised for a value the pydantic models reject
TransformJavaToInternal(jd) ==
    LET name == Get(jd.v, "studentName", Str(""))
        grade == Get(jd.v, "grade", Num(0))
        scores == Get(jd.v, "vibeScores", Dict(<<>>))
        buckets == Get(jd.v, "top5Buckets", List(<<>>)).v
        CareersOf(bucket, i) == BucketCareers(bucket)
        BucketOf(bucket, i) ==
            << [bucket_name |-> Get(bucket.v, "bucketName", Str("")).v,
                bucket_score |-> Get(bucket.v, "bucketScore", Num(0)).v,
                top_careers |-> BucketCareers(bucket)] >>
    IN IF name.t # "str" \/ ~IntLike(grade)
       THEN [ok |-> FALSE, v |-> NoRequest, msg |-> "Failed to transform Java data"]
       ELSE [ok |-> TRUE, msg |-> "",
             v |-> [student_profile |->
                       [name |-> name.v, grade |-> AsInt(grade),
                        board |-> Get(jd.v, "board", Str("")).v,
                        riasec_scores |-> scores],
                    career_matches |-> Collect(CareersOf, buckets, 1),
                    top_buckets |-> Collect(BucketOf, buckets, 1)]]

\* ValidationService.validate_request: the errors it lists
RequestErrors(req) ==
    LET profile == req.student_profile
        bucket_names == {req.top_buckets[i].bucket_name : i \in 1..Len(req.top_buckets)}
        ScoreError(pair, i) ==
            IF pair[2].t # "int" \/ pair[2].v < 0 \/ pair[2].v > 100
            THEN <<"RIASEC score must be an integer between 0 and 100">> ELSE <<>>
        CareerErrors(career, i) ==
            (IF Strip(career.career_name) = "" THEN <<"Career name is required">> ELSE <<>>)
            \o (IF career.match_score < 0 \/ career.match_score > 100
                THEN <<"Match score must be between 0 and 100">> ELSE <<>>)
            \o (IF Strip(career.bucket) = "" THEN <<"Bucket is required">> ELSE <<>>)
            \o (IF career.riasec_profile # "" /\ Len(career.riasec_profile) # 2
                THEN <<"RIASEC profile must be 2 characters">> ELSE <<>>)
            \o (IF career.confidence # "" /\ career.confidence \notin {"Low", "Medium", "High"}
                THEN <<"Confidence must be Low, Medium, or High">> ELSE <<>>)
        BucketErrors(bucket, i) ==
            (IF Strip(bucket.bucket_name) = "" THEN <<"Bucket name is required">> ELSE <<>>)
            \o (IF bucket.bucket_score < 0 \/ bucket.bucket_score > 100
                THEN <<"Bucket score must be between 0 and 100">> ELSE <<>>)
            \o (IF Len(bucket.top_careers) = 0
                THEN <<"Must contain at least one career">> ELSE <<>>)
        Inconsistent(career, i) ==
            IF career.bucket \notin bucket_names
            THEN <<"Career bucket not found in top buckets">> ELSE <<>>
    IN (IF Strip(profile.name) = "" THEN <<"Student name is required">> ELSE <<>>)
       \o (IF profile.grade < 1 \/ profile.grade > 12
           THEN <<"Grade must be between 1 and 12">> ELSE <<>>)
       \o (IF Strip(profile.board) = "" THEN <<"Board is required">> ELSE <<>>)
       \o (IF Len(profile.riasec_scores.v) = 0 THEN <<"RIASEC scores are required">>
           ELSE (IF Keys(profile.riasec_scores) # RiasecKeys
                 THEN <<"RIASEC scores must contain all keys: R, I, A, S, E, C">>
                 ELSE <<>>)
                \o Collect(ScoreError, profile.riasec_scores.v, 1))
       \o (IF Len(req.career_matches) = 0 THEN <<"At least one career match is required">>
           ELSE Collect(CareerErrors, req.career_matches, 1))
       \o (IF Len(req.top_buckets) = 0 THEN <<"At least one top bucket is required">>
           ELSE Collect(BucketErrors, req.top_buckets, 1))
       \o Collect(Inconsistent, req.career_matches, 1)

HTTPException(status_code, error) == [status_code |-> status_code, error |-> error]

\* what a handler did: the service calls it made, its response, the request it
\* validated, the report it got and the client calls made for it
Handled(calls_made, resp, req, rep, client_calls) ==
    [steps |-> calls_made, response |-> resp, request |-> req, report |-> rep,
     issued |-> client_calls]

\* ai_service.generate_detailed_report(profile, career_matches, top_buckets)
\* as the handlers call it; raises tells that an exception left it
Generate(c, req, raises) ==
    LET career_names == [i \in 1..Len(req.career_matches) |-> req.career_matches[i].career_name]
        r == DetailedReport(c, req.student_profile.grade, career_names)
    IN [raised |-> raises, issued |-> r.calls,
        report |-> IF raises THEN NoReport
                   ELSE [made |-> TRUE, grade |-> req.student_profile.grade,
                         career_matches |-> career_names, keys |-> r.keys,
                         career_insights |-> r.career_insights, values |-> r.values]]

\* what the validation and transformation services answer for the body jd
ServiceAnswers(jd) ==
    LET t == TransformJavaToInternal(jd)
    IN [java_data |-> jd,
        structure_errors |-> StructureErrors(jd),
        transformed |-> t,
        request_errors |-> IF t.ok THEN RequestErrors(t.v) ELSE <<>>]

\* the bodies of the model with the services' answers, tabulated
Bodies ==
    [a \in 1..Len(JavaNames) |-> [b \in 1..Len(JavaGrades) |->
       [c \in 1..Len(JavaScores) |-> [d \in 1..Len(JavaBuckets) |->
          ServiceAnswers(JavaData(JavaNames[a], JavaGrades[b], JavaScores[c],
                                  JavaBuckets[d]))]]]]

\* the body of generate_report_from_java; sv holds the answers of the services
\* it calls for java_data
HandleJava(c, sv, raises) ==
    LET s1 == <<"validate_java_data_structure">>
        s2 == Append(s1, "transform_java_to_internal")
        s3 == Append(s2, "validate_request")
        s4 == Append(s3, "generate_detailed_report")
        s5 == Append(s4, "transform_internal_to_java_response")
        t == sv.transformed
        g == Generate(c, t.v, raises)
    IN IF Len(sv.structure_errors) > 0
       THEN Handled(s1, HTTPException(400, "Invalid data structure"), NoRequest, NoReport, <<>>)
       ELSE IF ~t.ok
       THEN Handled(s2, HTTPException(500, "Internal server error"), NoRequest, NoReport, <<>>)
       ELSE IF Len(sv.request_errors) > 0
       THEN Handled(s3, HTTPException(400, "Data validation failed"), t.v, NoReport, <<>>)
       ELSE IF g.raised
       THEN Handled(s4, HTTPException(500, "Internal server error"), t.v, NoReport, g.issued)
       ELSE IF Get(sv.java_data.v, "grade", Num(11)).t # "int"
       THEN Handled(s5, HTTPException(500, "Internal server error"), t.v, g.report, g.issued)
       ELSE Handled(s5, [status_code |-> 200, error |-> ""], t.v, g.report, g.issued)

\* a handler that asks for the report without looking at the validation result
HandleRequestUnvalidated(c, sv, raises) ==
    LET g == Generate(c, sv.transformed.v, raises)
    IN IF g.raised
       THEN Handled(<<"validate_request", "generate_detailed_report">>,
                    HTTPException(500, "Internal server error"), sv.transformed.v,
                    NoReport, g.issued)
       ELSE Handled(<<"validate_request", "generate_detailed_report">>,
                    [status_code |-> 200, error |-> ""], sv.transformed.v, g.report,
                    g.issued)

\* the body of generate_report; sv holds the answer of validate_request
HandleRequest(c, sv, raises) ==
    LET s1 == <<"validate_request">>
        s2 == Append(s1, "generate_detailed_report")
        req == sv.transformed.v
        g == Generate(c, req, raises)
    IN IF Len(sv.request_errors) > 0
       THEN Handled(s1, HTTPException(400, "Data validation failed"), req, NoReport, <<>>)
       ELSE IF g.raised
       THEN Handled(s2, HTTPException(500, "Internal server error"), req, NoReport, g.issued)
       ELSE Handled(s2, [status_code |-> 200, error |-> ""], req, g.report, g.issued)

Respond(path, jd, h) ==
    /\ route' = path
    /\ java_data' = jd
    /\ request' = h.request
    /\ steps' = h.steps
    /\ response' = h.response
    /\ report' = h.report
    /\ issued' = h.issued
    /\ UNCHANGED <<environ, ai_client, startup, clientvars, fanvars, promptvars>>

\* POST /generate-report-java
GenerateReportFromJava ==
    /\ ai_client.state # "unset"
    /\ \E a \in 1..Len(JavaNames), b \in 1..Len(JavaGrades), c \in 1..Len(JavaScores),
          d \in 1..Len(JavaBuckets), raises \in BOOLEAN :
          Respond("/generate-report-java", Bodies[a][b][c][d].java_data,
                  HandleJava(ai_client, Bodies[a][b][c][d], raises))

\* POST /generate-report: the body is a ReportGenerationRequest that FastAPI
\* has parsed
GenerateReport ==
    /\ ai_client.state # "unset"
    /\ \E a \in 2..Len(JavaNames), b \in 1..Len(JavaGrades), c \in 1..Len(JavaScores),
          d \in 2..Len(JavaBuckets), raises \in BOOLEAN :
          /\ Bodies[a][b][c][d].transformed.ok
          /\ Respond("/generate-report", None,
                     HandleRequest(ai_client, Bodies[a][b][c][d], raises))

\* the process starts with one of four environments
EndpointInit ==
    /\ \E i \in {2, 3}, j \in {1, 3} :
          environ = [AI_MODEL_PROVIDER |-> EnvProviders[i],
                     OPENAI_API_KEY |-> OpenAIKeys[j],
                     GROQ_API_KEY |-> GroqKeys[j]]
    /\ ai_client = Unconstructed
    /\ startup = <<>>
    /\ report = NoReport
    /\ issued = <<>>
    /\ ClientOff
    /\ FanOff
    /\ BuilderOff
    /\ EndpointOff

EndpointNext == Startup \/ GenerateReportFromJava \/ GenerateReport

EndpointSpec == EndpointInit /\ [][EndpointNext]_vars

----------------------------------------------------------------------------
(* Properties of the endpoints                                             *)

JavaOrder ==
    <<"validate_java_data_structure", "transform_java_to_internal", "validate_request",
      "generate_detailed_report", "transform_internal_to_java_response">>

RequestOrder == <<"validate_request", "generate_detailed_report">>

IsPrefix(p, q) == Len(p) <= Len(q) /\ SubSeq(q, 1, Len(p)) = p

Generated == Has(steps, "generate_detailed_report")

\* the request of the last handler failed a validation
StructureInvalid == route = "/generate-report-java" /\ Len(StructureErrors(java_data)) > 0

RequestInvalid == Has(steps, "validate_request") /\ Len(RequestErrors(request)) > 0

\* C38: both report endpoints ask for the report only after validation has
\* passed. /generate-report-java calls structure validation, transformation,
\* request validation, generation and response transformation in this order
\* (/generate-report: request validation, generation); a request that fails a
\* validation is answered with status 400 and causes no generation and no
\* client call; a generation that raises is answered with status 500.
C38_GenerationOnlyAfterValidation ==
    route # "" =>
        /\ steps # <<>>
        /\ route = "/generate-report-java" => IsPrefix(steps, JavaOrder)
        /\ route = "/generate-report" => IsPrefix(steps, RequestOrder)
        /\ Generated =>
              /\ ~StructureInvalid
              /\ Len(RequestErrors(request)) = 0
        /\ (StructureInvalid \/ RequestInvalid) =>
              /\ response.status_code = 400
              /\ ~Generated
              /\ issued = <<>>
              /\ ~report.made
        /\ (Generated /\ ~report.made) => response.status_code = 500
        /\ response.status_code = 200 =>
              /\ report.made
              /\ steps = (IF route = "/generate-report-java" THEN JavaOrder ELSE RequestOrder)

\* C38 happens: with a client at hand, a body of the right structure whose
\* grade is 13 was transformed, failed the request validation and was answered
\* with 400 after three service calls
C38_InvalidGradeAnswered400 ==
    /\ route = "/generate-report-java"
    /\ HasClient(ai_client)
    /\ Len(StructureErrors(java_data)) = 0
    /\ request.student_profile.grade = 13
    /\ Len(steps) = 3
    /\ response.status_code = 400

\* ---------------------------------------------------------------------------
\* _get_fallback_content: keyword priority (ai_client.py:1305-1314)
\* ---------------------------------------------------------------------------

\* the keywords in the order the if/elif chain asks for them
KeywordOrder == <<"career", "study", "confidence">>

\* the fixed text of each keyword, and the text of the else branch
KeywordTexts ==
    << "This career aligns well with your profile based on your interests and academic performance.",
       "Focus on building relevant skills and gaining practical experience in your area of interest.",
       "This recommendation is based on strong alignment with your personality and academic profile." >>

DefaultText ==
    "Based on your profile, this is a suitable career path for your interests and abilities."

\* the keywords found in the lower-cased prompt, as positions of KeywordOrder
KeywordsFound(p) == {k \in 1..Len(KeywordOrder) : Contains(Lower(p), KeywordOrder[k])}

\* the text of the first keyword found, the default text when none is
ExpectedFallback(p) ==
    LET found == KeywordsFound(p)
    IN IF found = {} THEN DefaultText
       ELSE KeywordTexts[CHOOSE k \in found : \A j \in found : k <= j]

\* every skill-explanation prompt of the fan-out names "careers" in its
\* guidelines: its fallback is the text of 'career', whatever the skill
SkillFallbacksByKeyword ==
    \A i \in 1..Len(SkillNames) :
        /\ 1 \in KeywordsFound(SkillPrompt(SkillNames[i]))
        /\ SkillFallbacks[i] = Strip(KeywordTexts[1])

\* C39: the free-text fallback is one of four fixed strings, the one of the
\* first keyword found in the lower-cased prompt in the order 'career',
\* 'study', 'confidence', and the default text when none is found; the
\* fallback of a fan-out skill-explanation request follows from the keywords
\* of its prompt (always the text of 'career'), not from the skill.
C39_FallbackByFirstKeyword ==
    /\ SkillFallbacksByKeyword
    /\ (ContentCall /\ Done /\ EndedOnError) =>
          /\ result = Returned(Str(ExpectedFallback(prompt)), "fallback")
          /\ result.v.v \in {KeywordTexts[k] : k \in 1..Len(KeywordTexts)} \cup {DefaultText}

\* a prompt with "Study" (capital) and "confidence" and without "career" was
\* answered by the text of 'study'
C39_StudyBeforeConfidence ==
    /\ ContentCall /\ Done /\ EndedOnError
    /\ KeywordsFound(prompt) = {2, 3}
    /\ ~Contains(prompt, "study")
    /\ result.v.v = KeywordTexts[2]
====
